---------------------------- MODULE Spec2Model ----------------------------
(***************************************************************************)
(* Model of keboola/go-utils:                                              *)
(*   - pkg/orderedmap : OrderedMap (key sequence + value table)            *)
(*   - pkg/testproject: fsProjectLocker and ProjectsPool.GetTestProject    *)
(*   - pkg/orderedmap : JSON decoding of an OrderedMap                     *)
(*   - pkg/deepcopy   : Copy / CopyTranslate / translateRecursive          *)
(*   - pkg/orderedmap : nested paths (SetNestedPath, GetNestedPath) and    *)
(*                      VisitAllRecursive                                  *)
(*   - pkg/deepcopy   : Path.Add over the backing arrays of the paths      *)
(*   - pkg/testproject: redisProjectLocker (tryLock, extendLock, unlock)   *)
(* Each part has its own variables and its own specification; the          *)
(* variables of the other parts stay at their initial value.               *)
(***************************************************************************)
EXTENDS Integers, Sequences, FiniteSets, TLC

VARIABLES
    om,         \* the OrderedMap under test: [keys |-> Seq(KeySet), values |-> [S -> Values]]
    omLast,     \* the last OrderedMap operation, its arguments and the map before it
    osLock,     \* per project: the process whose open lock file holds the flock, 0 when free
    flockL,     \* per process and project: the Flock object's "locked" flag
    mutex,      \* per process and project: fsProjectLocker.lock is held
    locked,     \* per process and project: fsProjectLocker.locked
    gr,         \* per goroutine: where it is in GetTestProject / tryLock / unlock
    jsonDoc,    \* the JSON document handed to UnmarshalJSON: its top-level object
    jsonOpen,   \* how many containers of jsonDoc are still open while it is written
    jsonOut,    \* << >> before UnmarshalJSON, << the decoded OrderedMap >> after it
    cpHeap,     \* the value graph handed to Copy: node id -> node, the root is node 1
    cpStack,    \* the nodes of cpHeap that are still being written, innermost last
    cpRes,      \* << >> before the copy, << the outcome of the copy >> after it
    ntMap,      \* the OrderedMap the nested-path operations work on
    ntSets,     \* how many SetNestedPath calls it has seen
    ntLast,     \* the last nested-path call: its name, arguments and what it returned
    paArrays,   \* the backing arrays of the deepcopy paths: array id -> its cells
    paHeld,     \* the paths handed out so far (slice headers) and what each held then
    jsonInto,   \* << >>, or << the receiver that held keys and what UnmarshalJSON made of it >>
    redisKey,   \* the redis key of the project: "free", "mine" (rl.redisLock) or "other"
    rlLocked,   \* redisProjectLocker.locked
    ctxDone,    \* ctxWithCancel is cancelled
    tickerC,    \* a tick waits in the channel of the ticker
    extendPc,   \* the extendLock goroutine: "none", "select", "done" or "panic"
    callerPc,   \* the caller of tryLock: "idle", "refused" or "holding"
    rdCount     \* counters of the current tryLock: ticks, Refresh and Release calls

omVars == << om, omLast >>

lockVars == << osLock, flockL, mutex, locked, gr >>

jsonVars == << jsonDoc, jsonOpen, jsonOut, jsonInto >>

copyVars == << cpHeap, cpStack, cpRes >>

nestedVars == << ntMap, ntSets, ntLast >>

pathVars == << paArrays, paHeld >>

redisVars == << redisKey, rlLocked, ctxDone, tickerC, extendPc, callerPc, rdCount >>

vars == << om, omLast, osLock, flockL, mutex, locked, gr, jsonDoc, jsonOpen, jsonOut,
           cpHeap, cpStack, cpRes, ntMap, ntSets, ntLast, paArrays, paHeld, jsonInto,
           redisKey, rlLocked, ctxDone, tickerC, extendPc, callerPc, rdCount >>

\* what the actions of one part leave alone: the variables of the other parts
notOm == << lockVars, jsonVars, copyVars, nestedVars, pathVars, redisVars >>

notLock == << omVars, jsonVars, copyVars, nestedVars, pathVars, redisVars >>

notJson == << omVars, lockVars, copyVars, nestedVars, pathVars, redisVars >>

notCopy == << omVars, lockVars, jsonVars, nestedVars, pathVars, redisVars >>

notNested == << omVars, lockVars, jsonVars, copyVars, pathVars, redisVars >>

notPath == << omVars, lockVars, jsonVars, copyVars, nestedVars, redisVars >>

notRedis == << omVars, lockVars, jsonVars, copyVars, nestedVars, pathVars >>

(***************************************************************************)
(* Generic helpers.                                                        *)
(***************************************************************************)
Range(s) == { s[i] : i \in DOMAIN s }

NoDup(s) == \A i, j \in DOMAIN s : i # j => s[i] # s[j]

\* a removal that drops the last element whatever i is
RemoveLast(s, i) == SubSeq(s, 1, Len(s) - 1)

\* s without its i-th element: append(s[:i], s[i+1:]...)
RemoveAt(s, i) == [ j \in 1..(Len(s) - 1) |-> IF j < i THEN s[j] ELSE s[j + 1] ]

\* the first index of x in s, 0 when x is not in s
IndexOf(s, x) ==
    IF \E i \in DOMAIN s : s[i] = x
    THEN CHOOSE i \in DOMAIN s : s[i] = x /\ \A j \in 1..(i - 1) : s[j] # x
    ELSE 0

Swap(s, i, j) == [ s EXCEPT ![i] = s[j], ![j] = s[i] ]

\* all orderings of the elements of the sequence s
Permutations_(s) ==
    { p \in [ DOMAIN s -> Range(s) ] :
        \A x \in Range(s) :
            Cardinality({ i \in DOMAIN s : p[i] = x }) =
            Cardinality({ i \in DOMAIN s : s[i] = x }) }

(***************************************************************************)
(* pkg/orderedmap: OrderedMap.                                             *)
(***************************************************************************)
KeySet == { "a", "b", "c" }

ValueSet == { 1, 2 }

\* string order of the keys, used by the less functions of the tests
KeyRank == [ k \in KeySet |-> CASE k = "a" -> 1 [] k = "b" -> 2 [] OTHER -> 3 ]

\* func New() *OrderedMap
New == [ keys |-> << >>, values |-> << >> ]

\* func (o *OrderedMap) Get(key string) (any, bool): the found flag
GetFound(o, key) == key \in DOMAIN o.values

\* func (o *OrderedMap) Get(key string) (any, bool): the value (nil as 0)
GetValue(o, key) == IF key \in DOMAIN o.values THEN o.values[key] ELSE 0

\* a Set that appends the key whether or not it is present
SetAlwaysAppend(o, key, value) ==
    [ keys   |-> Append(o.keys, key),
      values |-> [ k \in (DOMAIN o.values) \cup { key } |->
                     IF k = key THEN value ELSE o.values[k] ] ]

\* a Set that moves a present key to the end of the sequence
SetMoveToEnd(o, key, value) ==
    [ keys   |-> IF key \in DOMAIN o.values
                 THEN Append(RemoveAt(o.keys, IndexOf(o.keys, key)), key)
                 ELSE Append(o.keys, key),
      values |-> [ k \in (DOMAIN o.values) \cup { key } |->
                     IF k = key THEN value ELSE o.values[k] ] ]

\* func (o *OrderedMap) Set(key string, value any)
Set(o, key, value) ==
    [ keys   |-> IF key \notin DOMAIN o.values THEN Append(o.keys, key) ELSE o.keys,
      values |-> [ k \in (DOMAIN o.values) \cup { key } |->
                     IF k = key THEN value ELSE o.values[k] ] ]

\* func FromPairs(pairs []Pair) *OrderedMap
RECURSIVE FromPairsFrom(_, _)
FromPairsFrom(ordered, pairs) ==
    IF pairs = << >> THEN ordered
    ELSE FromPairsFrom(Set(ordered, Head(pairs).Key, Head(pairs).Value), Tail(pairs))

FromPairs(pairs) == FromPairsFrom(New, pairs)

\* a Delete that removes the value and leaves the key in the sequence
DeleteValueOnly(o, key) ==
    IF key \notin DOMAIN o.values THEN o
    ELSE [ keys   |-> o.keys,
           values |-> [ k \in (DOMAIN o.values) \ { key } |-> o.values[k] ] ]

\* func (o *OrderedMap) Delete(key string)
Delete(o, key) ==
    IF key \notin DOMAIN o.values THEN o
    ELSE [ keys   |-> IF IndexOf(o.keys, key) = 0 THEN o.keys
                      ELSE RemoveAt(o.keys, IndexOf(o.keys, key)),
           values |-> [ k \in (DOMAIN o.values) \ { key } |-> o.values[k] ] ]

\* func (o *OrderedMap) Len() int
OLen(o) == Len(o.keys)

\* func (o *OrderedMap) Keys() []string
Keys(o) == o.keys

\* func (o *OrderedMap) SortKeys(sortFunc func(keys []string)); sortFunc rewrites the
\* live key slice in place: newKeys is what it leaves there
SortKeys(o, newKeys) == [ keys |-> newKeys, values |-> o.values ]

\* the less functions handed to Sort: by key, by key descending, by value (ties
\* between keys of equal value), and one that is no order at all
LessFuncs == { "keyAsc", "keyDesc", "valueAsc", "always" }

LessFunc(name, a, b) ==
    CASE name = "keyAsc"   -> KeyRank[a.Key] < KeyRank[b.Key]
      [] name = "keyDesc"  -> KeyRank[a.Key] > KeyRank[b.Key]
      [] name = "valueAsc" -> a.Value < b.Value
      [] OTHER             -> TRUE

\* sort.insertionSort inner loop: for j := i; j > a && less(data[j], data[j-1]); j-- { swap }
RECURSIVE InsertionInner(_, _, _)
InsertionInner(pairs, j, less) ==
    IF j > 1 /\ LessFunc(less, pairs[j], pairs[j - 1])
    THEN InsertionInner(Swap(pairs, j, j - 1), j - 1, less)
    ELSE pairs

\* sort.Sort on at most 12 elements is insertionSort: for i := a + 1; i < b; i++
RECURSIVE InsertionSort(_, _, _)
InsertionSort(pairs, i, less) ==
    IF i > Len(pairs) THEN pairs
    ELSE InsertionSort(InsertionInner(pairs, i, less), i + 1, less)

\* a Sort that drops the last pair when it rewrites the keys
SortDropLast(o, less) ==
    LET pairs  == [ i \in DOMAIN o.keys |-> [ Key |-> o.keys[i], Value |-> o.values[o.keys[i]] ] ]
        sorted == InsertionSort(pairs, 2, less)
    IN  [ keys   |-> [ i \in DOMAIN o.keys |-> sorted[IF i = Len(sorted) /\ i > 1 THEN i - 1 ELSE i].Key ],
          values |-> o.values ]

\* func (o *OrderedMap) Sort(lessFunc func(a *Pair, b *Pair) bool)
Sort(o, less) ==
    LET pairs  == [ i \in DOMAIN o.keys |-> [ Key |-> o.keys[i], Value |-> o.values[o.keys[i]] ] ]
        sorted == InsertionSort(pairs, 2, less)
    IN  [ keys   |-> [ i \in DOMAIN o.keys |-> sorted[i].Key ],
          values |-> o.values ]

\* the record of an operation: its name, arguments, and the map it was applied to
OmOp(name, key, value, before) ==
    [ op |-> name, key |-> key, value |-> value, before |-> before ]

\* the pair lists FromPairs is called with at construction
InitPairs ==
    { << >> } \cup
    { << [ Key |-> k, Value |-> v ] >> : k \in KeySet, v \in ValueSet } \cup
    { << [ Key |-> k1, Value |-> 1 ], [ Key |-> k2, Value |-> 2 ] >> : k1 \in KeySet, k2 \in KeySet }

OmInit ==
    /\ om = New
    /\ omLast = OmOp("New", "", 0, New)

OmFromPairs ==
    /\ omLast.op = "New"
    /\ \E pairs \in InitPairs \ { << >> } :
        /\ om' = FromPairs(pairs)
        /\ omLast' = OmOp("FromPairs", "", 0, om)
        /\ UNCHANGED notOm

OmSet ==
    \E k \in KeySet, v \in ValueSet :
        /\ om' = Set(om, k, v)
        /\ omLast' = OmOp("Set", k, v, om)
        /\ UNCHANGED notOm

OmDelete ==
    \E k \in KeySet :
        /\ om' = Delete(om, k)
        /\ omLast' = OmOp("Delete", k, 0, om)
        /\ UNCHANGED notOm

OmSortKeys ==
    \E p \in Permutations_(om.keys) :
        /\ om' = SortKeys(om, p)
        /\ omLast' = OmOp("SortKeys", "", 0, om)
        /\ UNCHANGED notOm

OmSort ==
    \E less \in LessFuncs :
        /\ om' = Sort(om, less)
        /\ omLast' = OmOp("Sort", less, 0, om)
        /\ UNCHANGED notOm

OmNext == OmFromPairs \/ OmSet \/ OmDelete \/ OmSortKeys \/ OmSort

(***************************************************************************)
(* pkg/testproject: ProjectsPool.GetTestProject over fsProjectLocker.      *)
(* Goroutines 1 and 2 run in process 1, goroutine 3 in process 2; every    *)
(* process has loaded the same pool (one fsProjectLocker per project).     *)
(***************************************************************************)
Goroutines == { 1, 2, 3 }

ProcOf == << 1, 1, 2 >>

Processes == { 1, 2 }

\* the pool: Definition of each project, in pool order
Pool ==
    << [ StagingStorage |-> "s3",  Backend |-> "snowflake", LegacyTransformation |-> FALSE, Queue |-> "" ],
       [ StagingStorage |-> "abs", Backend |-> "snowflake", LegacyTransformation |-> FALSE, Queue |-> "" ] >>

Projects == DOMAIN Pool

\* the option sets GetTestProject is called with: none, WithStagingStorage("abs"),
\* WithQueueV1()
Configs ==
    { [ stagingStorage |-> "",    backend |-> "", legacyTransformation |-> FALSE, queueV1 |-> FALSE ],
      [ stagingStorage |-> "abs", backend |-> "", legacyTransformation |-> FALSE, queueV1 |-> FALSE ],
      [ stagingStorage |-> "",    backend |-> "", legacyTransformation |-> FALSE, queueV1 |-> TRUE ] }

\* func (c *config) IsCompatible(p *Project) bool
IsCompatible(c, p) ==
    LET matchStagingStorage == c.stagingStorage = "" \/ p.StagingStorage = c.stagingStorage
        matchQueue == (p.Queue = "v1") = c.queueV1
        matchBackend == c.backend = "" \/ p.Backend = c.backend
        matchLegacyTransformation ==
            (~c.legacyTransformation) \/ p.LegacyTransformation = c.legacyTransformation
    IN  matchStagingStorage /\ matchQueue /\ matchBackend /\ matchLegacyTransformation

Idle == [ pc |-> "idle", idx |-> 1, any |-> FALSE, cfg |-> CHOOSE c \in Configs : TRUE, result |-> "none" ]

LockInit ==
    /\ osLock = [ p \in Projects |-> 0 ]
    /\ flockL = [ x \in Processes \X Projects |-> FALSE ]
    /\ mutex  = [ x \in Processes \X Projects |-> FALSE ]
    /\ locked = [ x \in Processes \X Projects |-> FALSE ]
    /\ gr = [ g \in Goroutines |-> Idle ]

\* GetTestProject: c := &config{}; opts applied; anyProjectFound := false; the scan starts
GetTestProjectCall(g) ==
    /\ gr[g].pc = "idle"
    /\ \E c \in Configs :
        gr' = [ gr EXCEPT ![g] = [ pc |-> "scan", idx |-> 1, any |-> FALSE, cfg |-> c, result |-> "none" ] ]
    /\ UNCHANGED << osLock, flockL, mutex, locked >>
    /\ UNCHANGED notLock

\* GetTestProject: one step of "for _, p := range v": an incompatible project is skipped
ScanSkip(g) ==
    /\ gr[g].pc = "scan"
    /\ gr[g].idx \in Projects
    /\ ~IsCompatible(gr[g].cfg, Pool[gr[g].idx])
    /\ gr' = [ gr EXCEPT ![g].idx = @ + 1 ]
    /\ UNCHANGED << osLock, flockL, mutex, locked >>
    /\ UNCHANGED notLock

\* GetTestProject: a compatible project: p.locker.tryLock() is entered
ScanTry(g) ==
    /\ gr[g].pc = "scan"
    /\ gr[g].idx \in Projects
    /\ IsCompatible(gr[g].cfg, Pool[gr[g].idx])
    /\ gr' = [ gr EXCEPT ![g].pc = "tryFs" ]
    /\ UNCHANGED << osLock, flockL, mutex, locked >>
    /\ UNCHANGED notLock

\* a GetTestProject that gives up with the error whenever a round ends without a
\* project, also when compatible projects were busy
ScanGiveUp(g) ==
    /\ gr[g].pc = "scan"
    /\ gr[g].idx \notin Projects
    /\ gr' = [ gr EXCEPT ![g] = [ Idle EXCEPT !.result = "no compatible test project found" ] ]
    /\ UNCHANGED << osLock, flockL, mutex, locked >>
    /\ UNCHANGED notLock

\* GetTestProject: the range is over and nothing compatible was seen: the error return
ScanNoCompatible(g) ==
    /\ gr[g].pc = "scan"
    /\ gr[g].idx \notin Projects
    /\ ~gr[g].any
    /\ gr' = [ gr EXCEPT ![g] = [ Idle EXCEPT !.result = "no compatible test project found" ] ]
    /\ UNCHANGED << osLock, flockL, mutex, locked >>
    /\ UNCHANGED notLock

\* GetTestProject: the range is over, all compatible projects were busy:
\* time.Sleep(100ms) and the next round of the for loop
ScanSleep(g) ==
    /\ gr[g].pc = "scan"
    /\ gr[g].idx \notin Projects
    /\ gr[g].any
    /\ gr' = [ gr EXCEPT ![g].idx = 1, ![g].any = FALSE ]
    /\ UNCHANGED << osLock, flockL, mutex, locked >>
    /\ UNCHANGED notLock

\* a busy project after which the next project of the pool is passed over untried
TryLockBusySkipNext(g) == [ gr EXCEPT ![g].pc = "scan", ![g].any = TRUE, ![g].idx = @ + 2 ]

\* tryLock returned false: anyProjectFound = true, next project
TryLockBusy(g) == [ gr EXCEPT ![g].pc = "scan", ![g].any = TRUE, ![g].idx = @ + 1 ]

\* flock.Flock.TryLock as fsProjectLocker.tryLock uses it: a Flock that is already
\* locked answers true at once; otherwise flock(LOCK_EX|LOCK_NB) on the lock file,
\* which fails while another process's open file holds the lock
FlockTryLock(g) ==
    LET x == << ProcOf[g], gr[g].idx >>
    IN  IF flockL[x]
        THEN /\ gr' = [ gr EXCEPT ![g].pc = "tryMutex" ]
             /\ UNCHANGED << osLock, flockL >>
        ELSE IF osLock[gr[g].idx] = 0
        THEN /\ osLock' = [ osLock EXCEPT ![gr[g].idx] = ProcOf[g] ]
             /\ flockL' = [ flockL EXCEPT ![x] = TRUE ]
             /\ gr' = [ gr EXCEPT ![g].pc = "tryMutex" ]
        ELSE /\ gr' = TryLockBusy(g)
             /\ UNCHANGED << osLock, flockL >>

\* fsProjectLocker.tryLock, first step: fl.fsLock.TryLock()
TryLockFs(g) ==
    /\ gr[g].pc = "tryFs"
    /\ FlockTryLock(g)
    /\ UNCHANGED << mutex, locked >>
    /\ UNCHANGED notLock

\* a tryLock that goes on without the in-process mutex
TryLockMutexSkipped(g) ==
    /\ gr[g].pc = "tryMutex"
    /\ gr' = [ gr EXCEPT ![g].pc = "setLocked" ]
    /\ UNCHANGED << osLock, flockL, mutex, locked >>
    /\ UNCHANGED notLock

\* fsProjectLocker.tryLock, second step: fl.lock.TryLock()
TryLockMutex(g) ==
    LET x == << ProcOf[g], gr[g].idx >>
    IN  /\ gr[g].pc = "tryMutex"
        /\ IF mutex[x]
           THEN /\ gr' = TryLockBusy(g)
                /\ UNCHANGED mutex
           ELSE /\ mutex' = [ mutex EXCEPT ![x] = TRUE ]
                /\ gr' = [ gr EXCEPT ![g].pc = "setLocked" ]
        /\ UNCHANGED << osLock, flockL, locked >>
        /\ UNCHANGED notLock

\* fsProjectLocker.tryLock, last step: fl.locked = true; return true; GetTestProject
\* returns the project and its UnlockFn
TryLockSetLocked(g) ==
    /\ gr[g].pc = "setLocked"
    /\ locked' = [ locked EXCEPT ![<< ProcOf[g], gr[g].idx >>] = TRUE ]
    /\ gr' = [ gr EXCEPT ![g].pc = "holding", ![g].result = "project" ]
    /\ UNCHANGED << osLock, flockL, mutex >>
    /\ UNCHANGED notLock

\* the UnlockFn is called; fsProjectLocker.unlock, first step: fl.locked = false
UnlockClear(g) ==
    /\ gr[g].pc = "holding"
    /\ locked' = [ locked EXCEPT ![<< ProcOf[g], gr[g].idx >>] = FALSE ]
    /\ gr' = [ gr EXCEPT ![g].pc = "unlockFs" ]
    /\ UNCHANGED << osLock, flockL, mutex >>
    /\ UNCHANGED notLock

\* fsProjectLocker.unlock, second step: fl.fsLock.Unlock(); a Flock that is not locked
\* does nothing
UnlockFs(g) ==
    LET x == << ProcOf[g], gr[g].idx >>
    IN  /\ gr[g].pc = "unlockFs"
        /\ IF flockL[x]
           THEN /\ flockL' = [ flockL EXCEPT ![x] = FALSE ]
                /\ osLock' = [ osLock EXCEPT ![gr[g].idx] = 0 ]
           ELSE UNCHANGED << osLock, flockL >>
        /\ gr' = [ gr EXCEPT ![g].pc = "unlockMutex" ]
        /\ UNCHANGED << mutex, locked >>
        /\ UNCHANGED notLock

\* fsProjectLocker.unlock, the deferred fl.lock.Unlock()
UnlockMutex(g) ==
    /\ gr[g].pc = "unlockMutex"
    /\ mutex' = [ mutex EXCEPT ![<< ProcOf[g], gr[g].idx >>] = FALSE ]
    /\ gr' = [ gr EXCEPT ![g] = [ Idle EXCEPT !.result = "unlocked" ] ]
    /\ UNCHANGED << osLock, flockL, locked >>
    /\ UNCHANGED notLock

LockNext ==
    \/ \E g \in Goroutines : GetTestProjectCall(g)
    \/ \E g \in Goroutines : ScanSkip(g)
    \/ \E g \in Goroutines : ScanTry(g)
    \/ \E g \in Goroutines : ScanNoCompatible(g)
    \/ \E g \in Goroutines : ScanSleep(g)
    \/ \E g \in Goroutines : TryLockFs(g)
    \/ \E g \in Goroutines : TryLockMutex(g)
    \/ \E g \in Goroutines : TryLockSetLocked(g)
    \/ \E g \in Goroutines : UnlockClear(g)
    \/ \E g \in Goroutines : UnlockFs(g)
    \/ \E g \in Goroutines : UnlockMutex(g)

(***************************************************************************)
(* pkg/orderedmap: JSON decoding, OrderedMap.UnmarshalJSON.                *)
(* A JSON value of the document is                                         *)
(*   [t |-> "num", n], [t |-> "str", s],                                   *)
(*   [t |-> "obj", pairs |-> << [k, v], ... >>] (keys may repeat),         *)
(*   [t |-> "arr", elems |-> << v, ... >>].                                *)
(* A decoded Go value is a num or str as above, or                         *)
(*   [t |-> "map", m]               map[string]any                         *)
(*   [t |-> "slice", items]         []any                                  *)
(*   [t |-> "strs", strs]           []string                               *)
(*   [t |-> "omap", keys, values]   *OrderedMap                            *)
(***************************************************************************)
JsonKeys == { "a", "b" }

JsonScalars == { [ t |-> "num", n |-> 1 ], [ t |-> "str", s |-> "s" ] }

EmptyObj == [ t |-> "obj", pairs |-> << >> ]

EmptyArr == [ t |-> "arr", elems |-> << >> ]

\* the most keys and elements a document holds, over all its levels
MaxItems == 4

\* the deepest nesting of containers below the top-level object
MaxNesting == 3

\* the keys and elements of a document value, over all its levels
RECURSIVE JsonSize(_)
JsonSize(v) ==
    CASE v.t = "obj" ->
            LET RECURSIVE Sum(_)
                Sum(i) == IF i = 0 THEN 0 ELSE 1 + JsonSize(v.pairs[i].v) + Sum(i - 1)
            IN  Sum(Len(v.pairs))
      [] v.t = "arr" ->
            LET RECURSIVE Sum(_)
                Sum(i) == IF i = 0 THEN 0 ELSE 1 + JsonSize(v.elems[i]) + Sum(i - 1)
            IN  Sum(Len(v.elems))
      [] OTHER -> 0

\* the kind of the container that is open at depth d of the document being written
RECURSIVE OpenKind(_, _)
OpenKind(v, d) ==
    IF d = 0 THEN v.t
    ELSE IF v.t = "obj" THEN OpenKind(v.pairs[Len(v.pairs)].v, d - 1)
    ELSE OpenKind(v.elems[Len(v.elems)], d - 1)

\* the document with one more key/value (or element) written into its open container
RECURSIVE AppendAt(_, _, _, _)
AppendAt(v, d, k, item) ==
    IF d = 0
    THEN IF v.t = "obj"
         THEN [ v EXCEPT !.pairs = Append(@, [ k |-> k, v |-> item ]) ]
         ELSE [ v EXCEPT !.elems = Append(@, item) ]
    ELSE IF v.t = "obj"
         THEN [ v EXCEPT !.pairs[Len(v.pairs)].v = AppendAt(@, d - 1, k, item) ]
         ELSE [ v EXCEPT !.elems[Len(v.elems)] = AppendAt(@, d - 1, k, item) ]

\* the index of the last occurrence of key k in an object's key/value list
LastIndex(pairs, k) ==
    CHOOSE i \in DOMAIN pairs : pairs[i].k = k /\ \A j \in (i + 1)..Len(pairs) : pairs[j].k # k

\* encoding/json: Unmarshal into an any: an object becomes a map[string]any in which
\* the last occurrence of a key wins, an array a []any
RECURSIVE StdValue(_)
StdValue(v) ==
    CASE v.t = "obj" ->
            [ t |-> "map",
              m |-> [ k \in { v.pairs[i].k : i \in DOMAIN v.pairs } |->
                        StdValue(v.pairs[LastIndex(v.pairs, k)].v) ] ]
      [] v.t = "arr" ->
            [ t |-> "slice", items |-> [ i \in DOMAIN v.elems |-> StdValue(v.elems[i]) ] ]
      [] OTHER -> v

\* json.Unmarshal(b, &o.values): the entries of the document are written into the map
\* that is there, whose other entries stay
StdUnmarshalInto(values, doc) ==
    LET m == StdValue(doc).m
    IN  [ k \in (DOMAIN values) \cup (DOMAIN m) |-> IF k \in DOMAIN m THEN m[k] ELSE values[k] ]

\* func convertStringSliceIfPossible(v any) any, with convertNestedSlices
RECURSIVE convertStringSliceIfPossible(_)
convertStringSliceIfPossible(v) ==
    IF v.t # "slice" THEN v
    ELSE IF \A i \in DOMAIN v.items : v.items[i].t = "str"
    THEN [ t |-> "strs", strs |-> [ i \in DOMAIN v.items |-> v.items[i].s ] ]
    ELSE [ t |-> "slice",
           items |-> [ i \in DOMAIN v.items |->
                         IF v.items[i].t = "slice"
                         THEN convertStringSliceIfPossible(v.items[i])
                         ELSE v.items[i] ] ]

\* a duplicate key that stays where its first occurrence put it
DuplicateKeyStays(keys, key) == keys

\* decodeJsonOrderedMap, the duplicate key: the key's old place is closed by
\* copy(o.keys[j:], o.keys[j+1:]) and the key is written to the last place
DuplicateKey(keys, key) ==
    LET j == IndexOf(keys, key)
        shifted == IF j = 0 THEN keys
                   ELSE [ i \in DOMAIN keys |-> IF i >= j /\ i < Len(keys) THEN keys[i + 1] ELSE keys[i] ]
    IN  [ shifted EXCEPT ![Len(keys)] = key ]

OMap(o) == [ t |-> "omap", keys |-> o.keys, values |-> o.values ]

\* func decodeJsonOrderedMap(dec, o) and func decodeJsonSlice(dec, s): the tokens of one
\* object (one array) of the document are read; a nested container whose place in
\* o.values does not hold a value of its kind is read into a map that is thrown away
RECURSIVE decodeJsonOrderedMapFrom(_, _, _)
RECURSIVE decodeJsonSliceFrom(_, _, _)
decodeJsonOrderedMapFrom(pairs, o, hasKey) ==
    IF pairs = << >> THEN o
    ELSE
        LET key == Head(pairs).k
            tok == Head(pairs).v
            keys1 == IF key \in hasKey THEN DuplicateKey(o.keys, key) ELSE Append(o.keys, key)
            cur == IF key \in DOMAIN o.values THEN o.values[key] ELSE [ t |-> "nil" ]
            values1 ==
                CASE tok.t = "obj" /\ cur.t = "map" ->
                        [ o.values EXCEPT ![key] =
                            OMap(decodeJsonOrderedMapFrom(tok.pairs, [ keys |-> << >>, values |-> cur.m ], { })) ]
                  [] tok.t = "obj" /\ cur.t = "omap" ->
                        [ o.values EXCEPT ![key] =
                            OMap(decodeJsonOrderedMapFrom(tok.pairs, [ keys |-> << >>, values |-> cur.values ], { })) ]
                  [] tok.t = "arr" /\ cur.t = "slice" ->
                        [ o.values EXCEPT ![key] =
                            convertStringSliceIfPossible(
                                [ t |-> "slice", items |-> decodeJsonSliceFrom(tok.elems, cur.items, 1) ]) ]
                  [] OTHER -> o.values
        IN  decodeJsonOrderedMapFrom(Tail(pairs), [ keys |-> keys1, values |-> values1 ], hasKey \cup { key })

decodeJsonSliceFrom(elems, s, index) ==
    IF index > Len(elems) THEN s
    ELSE
        LET tok == elems[index]
            cur == IF index <= Len(s) THEN s[index] ELSE [ t |-> "nil" ]
            s1 ==
                CASE tok.t = "obj" /\ cur.t = "map" ->
                        [ s EXCEPT ![index] =
                            OMap(decodeJsonOrderedMapFrom(tok.pairs, [ keys |-> << >>, values |-> cur.m ], { })) ]
                  [] tok.t = "obj" /\ cur.t = "omap" ->
                        [ s EXCEPT ![index] =
                            OMap(decodeJsonOrderedMapFrom(tok.pairs, [ keys |-> << >>, values |-> cur.values ], { })) ]
                  [] tok.t = "arr" /\ cur.t = "slice" ->
                        [ s EXCEPT ![index] =
                            convertStringSliceIfPossible(
                                [ t |-> "slice", items |-> decodeJsonSliceFrom(tok.elems, cur.items, 1) ]) ]
                  [] OTHER -> s
        IN  decodeJsonSliceFrom(elems, s1, index + 1)

decodeJsonOrderedMap(pairs, o) == decodeJsonOrderedMapFrom(pairs, o, { })

\* func (o *OrderedMap) UnmarshalJSON(b []byte) error, for a document b that is an object
UnmarshalJSON(o, doc) ==
    decodeJsonOrderedMap(doc.pairs, [ keys |-> << >>, values |-> StdUnmarshalInto(o.values, doc) ])

JsonInit ==
    /\ jsonDoc = EmptyObj
    /\ jsonOpen = 0
    /\ jsonOut = << >>
    /\ jsonInto = << >>

\* the caller writes a scalar into the open container of the document
JsonWriteScalar ==
    /\ jsonOut = << >>
    /\ JsonSize(jsonDoc) < MaxItems
    /\ \E k \in JsonKeys, item \in JsonScalars :
        /\ OpenKind(jsonDoc, jsonOpen) = "arr" => k = "a"
        /\ jsonDoc' = AppendAt(jsonDoc, jsonOpen, k, item)
    /\ UNCHANGED << jsonOpen, jsonOut, jsonInto >>
    /\ UNCHANGED notJson

\* the caller opens an object or an array in the open container of the document
JsonOpenContainer ==
    /\ jsonOut = << >>
    /\ JsonSize(jsonDoc) < MaxItems
    /\ jsonOpen < MaxNesting
    /\ \E k \in JsonKeys, item \in { EmptyObj, EmptyArr } :
        /\ OpenKind(jsonDoc, jsonOpen) = "arr" => k = "a"
        /\ jsonDoc' = AppendAt(jsonDoc, jsonOpen, k, item)
    /\ jsonOpen' = jsonOpen + 1
    /\ UNCHANGED << jsonOut, jsonInto >>
    /\ UNCHANGED notJson

\* the caller closes the open container
JsonCloseContainer ==
    /\ jsonOut = << >>
    /\ jsonOpen > 0
    /\ jsonOpen' = jsonOpen - 1
    /\ UNCHANGED << jsonDoc, jsonOut, jsonInto >>
    /\ UNCHANGED notJson

\* o := New(); json.Unmarshal(doc, &o)
JsonUnmarshal ==
    /\ jsonOut = << >>
    /\ jsonOpen = 0
    /\ jsonOut' = << UnmarshalJSON(New, jsonDoc) >>
    /\ UNCHANGED << jsonDoc, jsonOpen, jsonInto >>
    /\ UNCHANGED notJson

\* the maps that hold keys before the document is decoded into them
JsonReceivers ==
    { Set(New, "c", [ t |-> "num", n |-> 1 ]),
      Set(New, "a", [ t |-> "str", s |-> "s" ]),
      Set(Set(New, "c", [ t |-> "num", n |-> 1 ]), "a", [ t |-> "num", n |-> 1 ]) }

\* json.Unmarshal(doc, o) for an o that holds keys already: the document is decoded
\* once more, into such a map
JsonUnmarshalInto ==
    /\ jsonOut # << >>
    /\ jsonInto = << >>
    /\ \E o \in JsonReceivers :
        jsonInto' = << [ recv |-> o, out |-> UnmarshalJSON(o, jsonDoc) ] >>
    /\ UNCHANGED << jsonDoc, jsonOpen, jsonOut >>
    /\ UNCHANGED notJson

JsonNext ==
    \/ JsonWriteScalar
    \/ JsonOpenContainer
    \/ JsonCloseContainer
    \/ JsonUnmarshal
    \/ JsonUnmarshalInto

(***************************************************************************)
(* deepcopy: the value graph.                                              *)
(*                                                                         *)
(* A node is one Go value: [k |-> kind, c |-> children, v |-> scalar,      *)
(* x |-> labels].                                                          *)
(*   "int"    v is the number                                              *)
(*   "ptr"    c is << target >>, or << >> for a nil pointer                *)
(*   "iface"  c is << dynamic value >>, or << >> for a nil interface       *)
(*   "struct" c are the fields in declaration order, x[i] = 1 when field i *)
(*            is exported and 0 when it is not (its child is then 0)       *)
(*   "slice"  v = 0 for a nil slice, 1 otherwise; c are the elements       *)
(*   "map"    v = 0 for a nil map, 1 otherwise; x are the keys, c the      *)
(*            values                                                       *)
(*   "array"  c are the elements                                           *)
(*   "omap"   a *orderedmap.OrderedMap: v = 0 for the nil pointer; x are   *)
(*            the keys in order, c the values (0 is the nil any)           *)
(* Two positions that hold the same node id hold the same Go value: the    *)
(* same pointer, the same slice header, the same map, the same             *)
(* *OrderedMap.                                                            *)
(***************************************************************************)

\* The input has at most MaxNodes values that are not pointers, at most MaxPtrs
\* pointers (no pointer to a pointer), and at most MaxKids fields, elements or
\* entries in one value.
MaxNodes == 2

MaxPtrs == 2

MaxKids == 2

\* The depth of the goroutine stack, in calls of translateRecursive. No traversal
\* that ends gets deeper: a pointer or *OrderedMap is entered at most once, one
\* more call finds it in the VisitedPtrMap, and between two of them the stack
\* repeats no value; k is the number of *OrderedMap among the MaxNodes values.
MaxStack ==
    LET depths == { MaxPtrs + k + (MaxPtrs + k + 1) * (MaxNodes - k) + 1 : k \in 0..MaxNodes }
    IN  CHOOSE d \in depths : \A e \in depths : d >= e

IntValues == {1, 2}

Kinds == {"int", "ptr", "iface", "struct", "slice", "map", "array", "omap"}

Node(k, c, v, x) == [k |-> k, c |-> c, v |-> v, x |-> x]

LeafNodes ==
    { Node("int", << >>, i, << >>) : i \in IntValues }
        \cup { Node(k, << >>, 0, << >>) : k \in {"slice", "map", "omap"} }

OpenNodes ==
    { Node(k, << >>, 0, << >>) : k \in {"ptr", "iface", "struct", "array"} }
        \cup { Node(k, << >>, 1, << >>) : k \in {"slice", "map", "omap"} }

\* The number of nodes of these kinds.
Count(heap, ks) == Cardinality({i \in 1..Len(heap) : heap[i].k \in ks})

\* How many children a node of this kind may be given.
Arity(k) == IF k \in {"ptr", "iface"} THEN 1 ELSE MaxKids

\* The node under which node t was created.
Par(heap, t) ==
    CHOOSE p \in 1..(t - 1) :
        /\ t \in Range(heap[p].c)
        /\ \A q \in (p + 1)..(t - 1) : t \notin Range(heap[q].c)

\* Go can take the address of t: it is a pointer's target, a slice element, or a
\* field or element of an addressable struct or array.
RECURSIVE Addressable(_, _)
Addressable(heap, t) ==
    /\ t > 1
    /\ LET p == Par(heap, t)
       IN  \/ heap[p].k \in {"ptr", "slice"}
           \/ heap[p].k \in {"struct", "array"} /\ Addressable(heap, p)

\* reflect.Value.Pointer() of a pointer to t: a struct or an array starts at the
\* address of its first field or element.
RECURSIVE Addr(_, _)
Addr(heap, t) ==
    IF t > 1 /\ heap[Par(heap, t)].k \in {"struct", "array"} /\ heap[Par(heap, t)].c[1] = t
    THEN Addr(heap, Par(heap, t))
    ELSE t

\* parent.c gets one more child; a struct field is exported, a map or OrderedMap
\* entry gets the next key.
AddKid(n, child, flag) ==
    [n EXCEPT !.c = Append(@, child),
              !.x = CASE n.k = "struct" -> Append(@, flag)
                      [] n.k \in {"map", "omap"} -> Append(@, Len(@) + 1)
                      [] OTHER -> @]

Top == cpStack[Len(cpStack)]

CanTake == cpStack # << >> /\ Len(cpHeap[Top].c) < Arity(cpHeap[Top].k)

CopyInit ==
    /\ cpHeap = << >>
    /\ cpStack = << >>
    /\ cpRes = << >>

\* The next value of the input is written: the root, or the next child of the
\* value being written.
CpNew ==
    \E n \in LeafNodes \cup OpenNodes :
        /\ cpRes = << >>
        /\ IF n.k = "ptr" THEN Count(cpHeap, {"ptr"}) < MaxPtrs
                          ELSE Count(cpHeap, Kinds \ {"ptr"}) < MaxNodes
        /\ \/ cpHeap = << >>
           \/ CanTake /\ (n.k = "ptr" => cpHeap[Top].k # "ptr")
        /\ LET id == Len(cpHeap) + 1
               h == IF cpHeap = << >> THEN cpHeap
                    ELSE [cpHeap EXCEPT ![Top] = AddKid(@, id, 1)]
           IN  /\ cpHeap' = Append(h, n)
               /\ cpStack' = IF n \in LeafNodes THEN cpStack ELSE Append(cpStack, id)
        /\ UNCHANGED cpRes
        /\ UNCHANGED notCopy

\* The next child is a value that exists already: a pointer to a variable that is
\* in the graph (p = &s.X), a container put into itself (m["self"] = m,
\* o.Set("key", o)), an *OrderedMap stored once more (in itself, in another
\* OrderedMap, or in a field, element or entry of a value it holds).
CpRef ==
    \E t \in 1..Len(cpHeap) :
        /\ cpRes = << >>
        /\ CanTake
        /\ \/ cpHeap[Top].k = "ptr" /\ Addressable(cpHeap, t)
           \/ cpHeap[Top].k \in {"slice", "map", "omap"} /\ t \in Range(cpStack)
           \/ cpHeap[Top].k # "ptr" /\ cpHeap[t].k = "omap" /\ cpHeap[t].v = 1
        /\ cpHeap' = [cpHeap EXCEPT ![Top] = AddKid(@, t, 1)]
        /\ UNCHANGED << cpStack, cpRes >>
        /\ UNCHANGED notCopy

\* The next field of the struct being written is unexported, or the next value of
\* the OrderedMap being written is the nil any.
CpBlank ==
    /\ cpRes = << >>
    /\ CanTake
    /\ cpHeap[Top].k \in {"struct", "omap"}
    /\ cpHeap' = [cpHeap EXCEPT ![Top] = AddKid(@, 0, 0)]
    /\ UNCHANGED << cpStack, cpRes >>
    /\ UNCHANGED notCopy

\* The value being written is complete.
CpClose ==
    /\ cpRes = << >>
    /\ cpStack # << >>
    /\ cpStack' = SubSeq(cpStack, 1, Len(cpStack) - 1)
    /\ UNCHANGED << cpHeap, cpRes >>
    /\ UNCHANGED notCopy

(***************************************************************************)
(* deepcopy: Path.                                                         *)
(***************************************************************************)

Step(s, i, t) == [s |-> s, i |-> i, t |-> t]

TypeStep(t) == Step("type", 0, t)

PointerStep == Step("ptr", 0, "")

InterfaceStep(t) == Step("iface", 0, t)

StructFieldStep(t, i) == Step("field", i, t)

SliceIndexStep(i) == Step("index", i, "")

\* deepcopy.MapKeyStep: the value stored under the key of a Go map
MapKeyStep(key) == Step("mapval", key, "")

\* deepcopy.MapKeyValueStep: the key itself
MapKeyValueStep(key) == Step("mapkey", key, "")

\* orderedmap.MapStep: the value stored under the key of an OrderedMap
MapStep(key) == Step("omval", key, "")

\* orderedmap.MapKeyStep: the key itself
OrderedMapKeyStep(key) == Step("omkey", key, "")

\* An Add that forgets the steps before the new one.
PathAddReset(path, step) == << step >>

PathAdd(path, step) == Append(path, step)

StepString(st) ==
    CASE st.s = "type" -> st.t
      [] st.s = "ptr" -> "*"
      [] st.s = "iface" -> "interface[" \o st.t \o "]"
      [] st.s = "field" -> st.t \o "[F" \o ToString(st.i) \o "]"
      [] st.s = "index" -> "slice[" \o ToString(st.i) \o "]"
      [] st.s = "mapval" -> "map[" \o ToString(st.i) \o "]"
      [] st.s = "mapkey" -> "map[" \o ToString(st.i) \o "].<key>"
      [] st.s = "omval" -> "[k" \o ToString(st.i) \o "]"
      [] st.s = "omkey" -> "[k" \o ToString(st.i) \o "].<key>"

\* strings.Join(out, "."), then "*." becomes "*" and ".[" becomes "[": the dot is
\* dropped after a step that is "*" and before a step that starts with "[".
RECURSIVE PathStringFrom(_, _)
PathStringFrom(path, i) ==
    IF i > Len(path) THEN ""
    ELSE LET dot == IF i = 1 \/ path[i - 1].s = "ptr" \/ path[i].s \in {"omval", "omkey"}
                    THEN "" ELSE "."
         IN  dot \o StepString(path[i]) \o PathStringFrom(path, i + 1)

PathString(path) == PathStringFrom(path, 1)

\* reflect.Type.String() and reflect.Kind.String() of a node
TypeString(n) ==
    CASE n.k = "int" -> "int"
      [] n.k = "ptr" -> "*T"
      [] n.k = "iface" -> "interface {}"
      [] n.k = "struct" -> "T"
      [] n.k = "slice" -> "[]T"
      [] n.k = "map" -> "map[int]T"
      [] n.k = "array" -> "[n]T"
      [] n.k = "omap" -> "*orderedmap.OrderedMap"

KindString(n) ==
    CASE n.k = "omap" -> "ptr"
      [] n.k = "iface" -> "interface"
      [] OTHER -> n.k

(***************************************************************************)
(* deepcopy: translateRecursive.                                           *)
(*                                                                         *)
(* One copy threads a record st through the traversal:                     *)
(*   heap     the input nodes followed by the nodes allocated for the clone*)
(*   visited  VisitedPtrMap: address -> the clone position registered for  *)
(*            it and the pointer target it was registered with             *)
(*   log      the calls of the TranslateFn, in order                       *)
(*   status   "ok", "unexported" (the panic of the struct case),           *)
(*            "notAssignable" (the panic of reflect.Value.Set) or          *)
(*            "overflow" (the goroutine stack is exhausted)                *)
(*   ret      the clone position of the call that returned last            *)
(*   mine     TRUE when the VisitedPtrMap is one the caller made and keeps *)
(***************************************************************************)

\* reflect.New(type).Elem(): the zero value of the node's type
Zero(n) == Node(n.k, << >>, 0, IF n.k = "struct" THEN n.x ELSE << >>)

\* original.Pointer() of a non-nil pointer: an *OrderedMap points to its own object
PointerOf(heap, o) ==
    IF heap[o].k = "omap" THEN 0 - o ELSE Addr(heap, heap[o].c[1])

\* The pointer target, which stands for the pointer's type: two pointers to one
\* address have the same type exactly when they point to the same variable.
ElemOf(heap, o) == IF heap[o].k = "omap" THEN o ELSE heap[o].c[1]

\* A callback that is called before the values below are entered: its call comes
\* first in the log.
CallbackFirst(st, o, slot, path, kind) ==
    IF st.cb
    THEN [st EXCEPT !.log = << [o |-> o, c |-> slot,
                                path |-> PathAdd(path, TypeStep(kind))] >> \o @,
                    !.ret = slot]
    ELSE [st EXCEPT !.ret = slot]

\* A callback that is called a second time for the same value.
CallbackTwice(st, o, slot, path, kind) ==
    IF st.cb
    THEN [st EXCEPT !.log = @ \o << [o |-> o, c |-> slot, path |-> PathAdd(path, TypeStep(kind))],
                                    [o |-> o, c |-> slot, path |-> PathAdd(path, TypeStep(kind))] >>,
                    !.ret = slot]
    ELSE [st EXCEPT !.ret = slot]

\* callback(original, clone, path.Add(TypeStep{kind.String()}))
Callback(st, o, slot, path, kind) ==
    IF st.cb
    THEN [st EXCEPT !.log = Append(@, [o |-> o, c |-> slot,
                                       path |-> PathAdd(path, TypeStep(kind))]),
                    !.ret = slot]
    ELSE [st EXCEPT !.ret = slot]

\* m.Set(keyClone, valueClone) on the clone of an OrderedMap
OmapNodeSet(n, key, child) ==
    IF \E i \in 1..Len(n.x) : n.x[i] = key
    THEN [n EXCEPT !.c[IndexOf(n.x, key)] = child]
    ELSE [n EXCEPT !.x = Append(@, key), !.c = Append(@, child)]

\* original.MapKeys(): Go fixes no order
MapOrder(n, rev) ==
    IF rev THEN [i \in 1..Len(n.c) |-> Len(n.c) + 1 - i] ELSE [i \in 1..Len(n.c) |-> i]

\* clone.Set(original) of the default case: the value is copied as an assignment
\* copies it. A scalar, a pointer, the fields of a struct, the elements of an
\* array and the value boxed in an interface are copied; the target of a pointer
\* is not, and a map, an *OrderedMap or the backing array of a slice stays the
\* same object.
RECURSIVE InlineCopy(_, _), InlineKids(_, _, _, _)
InlineCopy(st, o) ==
    LET n == st.heap[o]
        slot == Len(st.heap) + 1
        st0 == [st EXCEPT !.heap = Append(@, n)]
    IN  CASE n.k \in {"struct", "array", "iface"} ->
               [InlineKids([st0 EXCEPT !.heap[slot].c = << >>], o, slot, 1) EXCEPT !.ret = slot]
          [] (n.k \in {"map", "omap"} /\ n.v = 1) \/ (n.k = "slice" /\ n.c # << >>) ->
               [st EXCEPT !.ret = o]
          [] OTHER -> [st0 EXCEPT !.ret = slot]

InlineKids(st, o, slot, i) ==
    IF i > Len(st.heap[o].c) THEN st
    ELSE IF st.heap[o].c[i] = 0
         THEN InlineKids([st EXCEPT !.heap[slot].c = Append(@, 0)], o, slot, i + 1)
         ELSE LET r == InlineCopy(st, st.heap[o].c[i])
              IN  InlineKids([r EXCEPT !.heap[slot].c = Append(@, r.ret)], o, slot, i + 1)

RECURSIVE translateRecursive(_, _, _, _), translateFields(_, _, _, _, _, _),
          translateElems(_, _, _, _, _, _), translateEntries(_, _, _, _, _, _),
          HandleDeepCopyFn(_, _, _, _, _, _)

\* case kind == reflect.Struct: field i and the fields after it
translateFields(st, o, slot, i, path, depth) ==
    LET n == st.heap[o]
        fieldPath == PathAdd(path, StructFieldStep(TypeString(n), i))
    IN  IF st.status # "ok" \/ i > Len(n.c) THEN st
        ELSE IF n.x[i] = 0
             THEN [st EXCEPT !.status = "unexported", !.ppath = fieldPath,
                             !.pmsg = PathString(fieldPath), !.pval = o]
             ELSE LET r == translateRecursive(st, n.c[i], fieldPath, depth + 1)
                  IN  IF r.status # "ok" THEN r
                      ELSE translateFields([r EXCEPT !.heap[slot].c = Append(@, r.ret)],
                                           o, slot, i + 1, path, depth)

\* case kind == reflect.Slice: element i and the elements after it
translateElems(st, o, slot, i, path, depth) ==
    LET n == st.heap[o]
    IN  IF st.status # "ok" \/ i > Len(n.c) THEN st
        ELSE LET r == translateRecursive(st, n.c[i], PathAdd(path, SliceIndexStep(i - 1)),
                                         depth + 1)
             IN  IF r.status # "ok" THEN r
                 ELSE translateElems([r EXCEPT !.heap[slot].c = Append(@, r.ret)],
                                     o, slot, i + 1, path, depth)

\* case kind == reflect.Map: the i-th key of MapKeys() and the keys after it
translateEntries(st, o, slot, i, path, depth) ==
    LET n == st.heap[o]
        j == MapOrder(n, st.rev)[i]
        key == n.x[j]
        k == Callback(st, 0, 0, PathAdd(path, MapKeyValueStep(key)), "int")
    IN  IF st.status # "ok" \/ i > Len(n.c) THEN st
        ELSE LET r == translateRecursive(k, n.c[j], PathAdd(path, MapKeyStep(key)), depth + 1)
             IN  IF r.status # "ok" THEN r
                 ELSE translateEntries([r EXCEPT !.heap[slot].x = Append(@, key),
                                                 !.heap[slot].c = Append(@, r.ret)],
                                       o, slot, i + 1, path, depth)

\* The CloneFn that HandleDeepCopy returns: key i of o.Keys() and the keys after it
HandleDeepCopyFn(st, o, slot, i, steps, depth) ==
    LET n == st.heap[o]
        key == n.x[i]
        k == Callback(st, 0, 0, PathAdd(steps, OrderedMapKeyStep(key)), "string")
    IN  IF st.status # "ok" \/ i > Len(n.c) THEN st
        ELSE IF n.c[i] = 0
             THEN HandleDeepCopyFn([k EXCEPT !.heap[slot] = OmapNodeSet(@, key, 0)],
                                   o, slot, i + 1, steps, depth)
             ELSE LET r == translateRecursive(k, n.c[i], PathAdd(steps, MapStep(key)),
                                              depth + 1)
                  IN  IF r.status # "ok" THEN r
                      ELSE HandleDeepCopyFn(
                               [r EXCEPT !.heap[slot] = OmapNodeSet(@, key, r.ret)],
                               o, slot, i + 1, steps, depth)

translateRecursive(st, o, path, depth) ==
    IF st.status # "ok" THEN st
    ELSE IF depth > MaxStack THEN [st EXCEPT !.status = "overflow"]
    ELSE
    LET n == st.heap[o]
        slot == Len(st.heap) + 1
        st0 == [st EXCEPT !.heap = Append(@, Zero(n))]
        isPtr == (n.k = "ptr" /\ n.c # << >>) \/ (n.k = "omap" /\ n.v = 1)
        ptr == PointerOf(st.heap, o)
    IN  IF isPtr /\ ptr \in DOMAIN st.visited
        THEN \* clone.Set(*v); return
             LET v == st.visited[ptr]
             IN  IF v.elem # ElemOf(st.heap, o)
                 THEN [st0 EXCEPT !.status = "notAssignable"]
                 ELSE IF n.k = "omap"
                      THEN [st0 EXCEPT !.ret = v.slot]
                      ELSE [st0 EXCEPT !.heap[slot].c = st0.heap[v.slot].c, !.ret = slot]
        ELSE
        LET st1 == IF isPtr
                   THEN [st0 EXCEPT !.visited =
                            (ptr :> [slot |-> slot, elem |-> ElemOf(st.heap, o)]) @@ @]
                   ELSE st0
            st2 ==
              CASE n.k = "omap" ->
                     IF n.v = 0 THEN st1
                     ELSE HandleDeepCopyFn([st1 EXCEPT !.heap[slot].v = 1], o, slot, 1,
                              PathAdd(path, TypeStep(TypeString(n))), depth)
                [] n.k = "ptr" ->
                     IF n.c = << >> THEN st1
                     ELSE \* clone.Set(reflect.New(...)) comes before the call; the new
                          \* variable is the clone position of that call, except that a
                          \* *OrderedMap found in the VisitedPtrMap is its registered clone
                          LET r == translateRecursive(
                                       [st1 EXCEPT !.heap[slot].c = << slot + 1 >>],
                                       n.c[1], PathAdd(path, PointerStep), depth + 1)
                          IN  IF r.status # "ok" THEN r
                              ELSE [r EXCEPT !.heap[slot].c = << r.ret >>]
                [] n.k = "iface" ->
                     IF n.c = << >> THEN st1
                     ELSE LET r == translateRecursive(st1, n.c[1],
                                       PathAdd(path, InterfaceStep(TypeString(st.heap[n.c[1]]))),
                                       depth + 1)
                          IN  IF r.status # "ok" THEN r
                              ELSE [r EXCEPT !.heap[slot].c = << r.ret >>]
                [] n.k = "struct" -> translateFields(st1, o, slot, 1, path, depth)
                [] n.k = "slice" ->
                     IF n.v = 0 THEN st1
                     ELSE translateElems([st1 EXCEPT !.heap[slot].v = 1], o, slot, 1, path, depth)
                [] n.k = "map" ->
                     IF n.v = 0 THEN st1
                     ELSE translateEntries([st1 EXCEPT !.heap[slot].v = 1], o, slot, 1, path,
                                           depth)
                [] OTHER ->
                     IF n.k = "array"
                     THEN InlineKids(st1, o, slot, 1)
                     ELSE [st1 EXCEPT !.heap[slot] = n]
        IN  IF st2.status # "ok" THEN st2 ELSE Callback(st2, o, slot, path, KindString(n))

\* CopyTranslateSteps(value, callback, Path{}, make(VisitedPtrMap)) for the value
\* at node root; cb says whether a callback is given.
CopyTranslateSteps(heap, root, cb, rev) ==
    translateRecursive([heap |-> heap, visited |-> << >>, log |-> << >>, status |-> "ok",
                        ppath |-> << >>, pmsg |-> "", pval |-> 0, ret |-> 0,
                        cb |-> cb, rev |-> rev, mine |-> FALSE],
                       root, << >>, 1)

\* deepcopy.Copy(value)
Copy ==
    \E rev \in BOOLEAN :
        /\ cpRes = << >>
        /\ cpHeap # << >>
        /\ cpStack = << >>
        /\ cpRes' = << CopyTranslateSteps(cpHeap, 1, FALSE, rev) >>
        /\ UNCHANGED << cpHeap, cpStack >>
        /\ UNCHANGED notCopy

\* deepcopy.CopyTranslate(value, callback) with a callback that records its calls
CopyTranslate ==
    \E rev \in BOOLEAN :
        /\ cpRes = << >>
        /\ cpHeap # << >>
        /\ cpStack = << >>
        /\ cpRes' = << CopyTranslateSteps(cpHeap, 1, TRUE, rev) >>
        /\ UNCHANGED << cpHeap, cpStack >>
        /\ UNCHANGED notCopy

\* visited := make(deepcopy.VisitedPtrMap);
\* deepcopy.CopyTranslateSteps(value, nil, deepcopy.Path{}, visited): a Go map is
\* a reference, so the caller's variable sees every entry the call has stored.
CopyTranslateStepsCall ==
    \E rev \in BOOLEAN :
        /\ cpRes = << >>
        /\ cpHeap # << >>
        /\ cpStack = << >>
        /\ cpRes' = << [CopyTranslateSteps(cpHeap, 1, FALSE, rev) EXCEPT !.mine = TRUE] >>
        /\ UNCHANGED << cpHeap, cpStack >>
        /\ UNCHANGED notCopy

\* the VisitedPtrMap of the second call: the caller's map, with the entries the
\* first call stored, or make(VisitedPtrMap)
SecondVisited(first, shared) == IF shared THEN first.visited ELSE << >>

\* deepcopy.CopyTranslateSteps(value2, nil, deepcopy.Path{}, visited) after the call
\* above has returned: value2 is a value of the same graph, visited is the map of
\* the first call or a fresh one
CopyTranslateStepsAgain ==
    \E root \in 1..Len(cpHeap), shared \in BOOLEAN :
        /\ Len(cpRes) = 1
        /\ cpRes[1].mine /\ cpRes[1].status = "ok"
        /\ cpRes' = Append(cpRes,
                [ call |-> translateRecursive(
                              [cpRes[1] EXCEPT !.visited = SecondVisited(cpRes[1], shared),
                                               !.ret = 0],
                              root, << >>, 1),
                  root |-> root, shared |-> shared ])
        /\ UNCHANGED << cpHeap, cpStack >>
        /\ UNCHANGED notCopy

CopyNext ==
    \/ CpNew
    \/ CpRef
    \/ CpBlank
    \/ CpClose
    \/ Copy
    \/ CopyTranslate
    \/ CopyTranslateStepsCall
    \/ CopyTranslateStepsAgain


(***************************************************************************)
(* pkg/orderedmap: nested paths.                                           *)
(*                                                                         *)
(* The values of the map are the decoded Go values of the JSON part:       *)
(*   [t |-> "nil"], [t |-> "num", n], [t |-> "slice", items] ([]any) and   *)
(*   [t |-> "omap", keys, values] (a pointer to an OrderedMap).            *)
(* An OrderedMap owns its nested maps and slices (no value is stored in    *)
(* two places), so a Set on a nested map is the rewrite of the root at the *)
(* place of that map.                                                      *)
(* A Step is [s |-> "map", key] (MapStep) or [s |-> "slice", index]        *)
(* (SliceStep).                                                            *)
(***************************************************************************)
NestedKeys == { "a", "b" }

\* the largest SliceStep index
MaxIndex == 1

\* the longest Path handed to SetNestedPath and GetNestedPath
MaxPathLen == 3

\* the most SetNestedPath calls on one map
MaxSets == 2

Nil == [ t |-> "nil" ]

Num(n) == [ t |-> "num", n |-> n ]

Slice(items) == [ t |-> "slice", items |-> items ]

\* the values SetNestedPath is called with
NestedValues == { Num(1), Slice(<< >>), Slice(<< OMap(New) >>) }

NestedStepMap(key) == [ s |-> "map", key |-> key, index |-> 0 ]

NestedStepSlice(index) == [ s |-> "slice", key |-> "", index |-> index ]

\* type SliceStep int: a negative index is a value of the type too
NestedIndexes == (-1)..MaxIndex

NestedSteps ==
    { NestedStepMap(k) : k \in NestedKeys } \cup { NestedStepSlice(i) : i \in NestedIndexes }

\* The paths handed to the map. The receiver is an OrderedMap, so a path that starts
\* with a SliceStep fails at its first step whatever follows: such paths are taken
\* with at most one further step.
NestedPaths ==
    { p \in UNION { [ 1..n -> NestedSteps ] : n \in 0..MaxPathLen } :
        (Len(p) > 2) => p[1].s = "map" }

\* func (v Path) WithoutLast() Path
WithoutLast(path) == IF path = << >> THEN << >> ELSE SubSeq(path, 1, Len(path) - 1)

\* func (v Path) String() string: the parts joined by "." with ".[" replaced by "["
RECURSIVE NestedPathStringFrom(_, _)
NestedPathStringFrom(path, i) ==
    IF i > Len(path) THEN ""
    ELSE LET part == IF path[i].s = "map" THEN path[i].key
                     ELSE "[" \o ToString(path[i].index) \o "]"
             sep == IF i = 1 \/ path[i].s = "slice" THEN "" ELSE "."
         IN  sep \o part \o NestedPathStringFrom(path, i + 1)

NestedPathString(path) == NestedPathStringFrom(path, 1)

\* fmt's %T of a value
TypeName(v) ==
    CASE v.t = "nil" -> "<nil>"
      [] v.t = "num" -> "int"
      [] v.t = "slice" -> "[]interface {}"
      [] OTHER -> "*orderedmap.OrderedMap"

ErrNotFound(path) == "path \"" \o NestedPathString(path) \o "\" not found"

ErrExpectedObject(path, v) ==
    "path \"" \o NestedPathString(path) \o "\": expected object found \"" \o TypeName(v) \o "\""

ErrExpectedArray(path, v) ==
    "path \"" \o NestedPathString(path) \o "\": expected array found \"" \o TypeName(v) \o "\""

ErrLastKey(path) ==
    "path \"" \o NestedPathString(path)
        \o "\": last key must be MapStep, found \"orderedmap.SliceStep\""

ErrEmptyPath == "path cannot be empty"

\* what GetNestedPath returns, or the runtime panic it ends in
GetResult(value, found, err, panic) ==
    [ value |-> value, found |-> found, err |-> err, panic |-> panic ]

\* if len(s) >= int(key) { current = s[key] ... }
SliceStepInBounds(s, index) == Len(s) >= index

\* func (o *OrderedMap) GetNestedPath(path Path): step i of the loop and the steps
\* after it, current being the value reached
RECURSIVE GetNestedPathFrom(_, _, _)
GetNestedPathFrom(current, path, i) ==
    IF i > Len(path) THEN GetResult(current, TRUE, "", FALSE)
    ELSE
        LET key == path[i]
            currentKey == SubSeq(path, 1, i)
        IN  IF key.s = "map"
            THEN IF current.t = "omap"
                 THEN IF key.key \in DOMAIN current.values
                      THEN GetNestedPathFrom(current.values[key.key], path, i + 1)
                      ELSE GetResult(Nil, FALSE, ErrNotFound(currentKey), FALSE)
                 ELSE GetResult(Nil, TRUE, ErrExpectedObject(WithoutLast(currentKey), current),
                                FALSE)
            ELSE IF current.t = "slice"
                 THEN IF SliceStepInBounds(current.items, key.index)
                      THEN IF key.index >= 0 /\ key.index < Len(current.items)
                           THEN GetNestedPathFrom(current.items[key.index + 1], path, i + 1)
                           ELSE \* s[key] with key = len(s) or key < 0: index out of range
                                GetResult(Nil, FALSE, "", TRUE)
                      ELSE GetResult(Nil, FALSE, ErrNotFound(currentKey), FALSE)
                 ELSE GetResult(Nil, TRUE, ErrExpectedArray(WithoutLast(currentKey), current),
                                FALSE)

GetNestedPath(o, path) ==
    IF Len(path) = 0 THEN GetResult(Nil, FALSE, ErrEmptyPath, FALSE)
    ELSE GetNestedPathFrom(OMap(o), path, 1)

\* what GetNestedPathOrNil returns, or the panic it ends in
OrNilResult(value, panic) == [ value |-> value, panic |-> panic ]

\* func (o *OrderedMap) GetNestedPathOrNil(path Path) any:
\* if !found { return nil } else if err != nil { panic(err) }; return value
GetNestedPathOrNil(o, path) ==
    LET r == GetNestedPath(o, path)
    IN  IF r.panic THEN OrNilResult(Nil, TRUE)
        ELSE IF ~r.found THEN OrNilResult(Nil, FALSE)
        ELSE IF r.err # "" THEN OrNilResult(Nil, TRUE)
        ELSE OrNilResult(r.value, FALSE)

\* what SetNestedPath leaves at the place of current, and what it returns
SetResult(current, err, panic) == [ current |-> current, err |-> err, panic |-> panic ]

\* a Set whose write is lost: the map stays as it was
SetInLost(m, key, value) == m

\* m.Set(key, value) on the *OrderedMap held as a value
SetIn(m, key, value) == OMap(Set([ keys |-> m.keys, values |-> m.values ], key, value))

\* func (o *OrderedMap) SetNestedPath(path Path, value any) error: step i of the
\* loop over path.WithoutLast() and the steps after it, then the Set of the last key
RECURSIVE SetNestedPathFrom(_, _, _, _)
SetNestedPathFrom(current, path, i, value) ==
    LET key == path[i]
        currentKey == SubSeq(path, 1, i)
    IN  IF i = Len(path)
        THEN IF key.s = "map"
             THEN IF current.t = "omap"
                  THEN SetResult(SetIn(current, key.key, value), "", FALSE)
                  ELSE SetResult(current, ErrExpectedObject(WithoutLast(path), current), FALSE)
             ELSE SetResult(current, ErrLastKey(path), FALSE)
        ELSE IF key.s = "map"
        THEN IF current.t = "omap"
             THEN LET next == IF key.key \in DOMAIN current.values
                              THEN current.values[key.key]
                              ELSE OMap(New)
                      r == SetNestedPathFrom(next, path, i + 1, value)
                  IN  SetResult(SetIn(current, key.key, r.current), r.err, r.panic)
             ELSE SetResult(current, ErrExpectedObject(currentKey, current), FALSE)
        ELSE IF current.t = "slice"
             THEN IF SliceStepInBounds(current.items, key.index)
                  THEN IF key.index >= 0 /\ key.index < Len(current.items)
                       THEN LET r == SetNestedPathFrom(current.items[key.index + 1], path,
                                                       i + 1, value)
                            IN  SetResult([ current EXCEPT !.items[key.index + 1] = r.current ],
                                          r.err, r.panic)
                       ELSE SetResult(current, "", TRUE)
                  ELSE SetResult(current, ErrNotFound(currentKey), FALSE)
             ELSE SetResult(current, ErrExpectedArray(WithoutLast(currentKey), current), FALSE)

SetNestedPath(o, path, value) ==
    IF Len(path) = 0 THEN SetResult(OMap(o), ErrEmptyPath, FALSE)
    ELSE SetNestedPathFrom(OMap(o), path, 1, value)

\* a callback that is not told the parent
VisitCallNoParent(path, value, parent) == [ path |-> path, value |-> value, parent |-> Nil ]

\* callback(key, valueRaw, parent)
VisitCall(path, value, parent) == [ path |-> path, value |-> value, parent |-> parent ]

\* func visit(key Path, valueRaw any, parent any, callback VisitCallback): the calls
\* of the callback, in order
RECURSIVE visit(_, _, _), visitKeys(_, _, _), visitItems(_, _, _)
visit(key, valueRaw, parent) ==
    LET own == IF Len(key) # 0 THEN << VisitCall(key, valueRaw, parent) >> ELSE << >>
    IN  CASE valueRaw.t = "omap" -> own \o visitKeys(key, valueRaw, 1)
          [] valueRaw.t = "slice" -> own \o visitItems(key, valueRaw, 1)
          [] OTHER -> own

\* for _, k := range parent.Keys()
visitKeys(key, parent, i) ==
    IF i > Len(parent.keys) THEN << >>
    ELSE visit(Append(key, NestedStepMap(parent.keys[i])), parent.values[parent.keys[i]], parent)
            \o visitKeys(key, parent, i + 1)

\* for index, subValue := range parent
visitItems(key, parent, i) ==
    IF i > Len(parent.items) THEN << >>
    ELSE visit(Append(key, NestedStepSlice(i - 1)), parent.items[i], parent)
            \o visitItems(key, parent, i + 1)

\* func (o *OrderedMap) VisitAllRecursive(callback VisitCallback)
VisitAllRecursive(o) == visit(<< >>, OMap(o), Nil)

\* encoding/json on a value of the map: a *OrderedMap through its MarshalJSON, a
\* []any or []string as an array, nil as null ([t |-> "nil"])
RECURSIVE JsonOf(_)

\* a MarshalJSON that writes the keys last to first
JsonObjectReversed(keys, values) ==
    [ t |-> "obj",
      pairs |-> [ i \in DOMAIN keys |->
                    [ k |-> keys[Len(keys) + 1 - i], v |-> JsonOf(values[keys[Len(keys) + 1 - i]]) ] ] ]

\* for i, k := range o.keys { encoder.Encode(k); ':'; encoder.Encode(o.values[k]) }
JsonObject(keys, values) ==
    [ t |-> "obj",
      pairs |-> [ i \in DOMAIN keys |-> [ k |-> keys[i], v |-> JsonOf(values[keys[i]]) ] ] ]

JsonOf(v) ==
    CASE v.t = "omap" -> JsonObject(v.keys, v.values)
      [] v.t = "slice" -> [ t |-> "arr", elems |-> [ i \in DOMAIN v.items |-> JsonOf(v.items[i]) ] ]
      [] v.t = "strs" ->
            [ t |-> "arr", elems |-> [ i \in DOMAIN v.strs |-> [ t |-> "str", s |-> v.strs[i] ] ] ]
      [] OTHER -> v

\* func (o OrderedMap) MarshalJSON() ([]byte, error): the document it writes
MarshalJSON(o) == JsonObject(o.keys, o.values)

NestedOp(name, path, value, before, res) ==
    [ op |-> name, path |-> path, value |-> value, before |-> before, res |-> res ]

NestedInit ==
    /\ ntMap = New
    /\ ntSets = 0
    /\ ntLast = NestedOp("New", << >>, Nil, New, << >>)

\* the map is built by SetNestedPath calls and then read once
NestedBuilding == ntLast.op \in { "New", "SetNestedPath" }

\* err := o.SetNestedPath(path, value)
NtSetNestedPath ==
    \E path \in NestedPaths, value \in NestedValues :
        /\ NestedBuilding
        /\ ntSets < MaxSets
        /\ LET r == SetNestedPath(ntMap, path, value)
           IN  /\ ntMap' = [ keys |-> r.current.keys, values |-> r.current.values ]
               /\ ntLast' = NestedOp("SetNestedPath", path, value, ntMap,
                                     [ err |-> r.err, panic |-> r.panic ])
        /\ ntSets' = ntSets + 1
        /\ UNCHANGED notNested

\* value, found, err := o.GetNestedPath(path)
NtGetNestedPath ==
    \E path \in NestedPaths :
        /\ NestedBuilding
        /\ ntLast' = NestedOp("GetNestedPath", path, Nil, ntMap, GetNestedPath(ntMap, path))
        /\ UNCHANGED << ntMap, ntSets >>
        /\ UNCHANGED notNested

\* value := o.GetNestedPathOrNil(path)
NtGetNestedPathOrNil ==
    \E path \in NestedPaths :
        /\ NestedBuilding
        /\ ntLast' = NestedOp("GetNestedPathOrNil", path, Nil, ntMap,
                              GetNestedPathOrNil(ntMap, path))
        /\ UNCHANGED << ntMap, ntSets >>
        /\ UNCHANGED notNested

\* o.VisitAllRecursive(callback) with a callback that records its calls
NtVisitAllRecursive ==
    /\ NestedBuilding
    /\ ntLast' = NestedOp("VisitAllRecursive", << >>, Nil, ntMap, VisitAllRecursive(ntMap))
    /\ UNCHANGED << ntMap, ntSets >>
    /\ UNCHANGED notNested

\* b, _ := json.Marshal(o); out := New(); json.Unmarshal(b, out)
NtMarshalUnmarshal ==
    /\ NestedBuilding
    /\ ntLast' = NestedOp("MarshalUnmarshal", << >>, Nil, ntMap,
                          [ doc |-> MarshalJSON(ntMap),
                            out |-> UnmarshalJSON(New, MarshalJSON(ntMap)) ])
    /\ UNCHANGED << ntMap, ntSets >>
    /\ UNCHANGED notNested

NestedNext ==
    \/ NtSetNestedPath
    \/ NtGetNestedPath
    \/ NtGetNestedPathOrNil
    \/ NtVisitAllRecursive
    \/ NtMarshalUnmarshal

(***************************************************************************)
(* pkg/deepcopy: Path.Add in memory.                                       *)
(*                                                                         *)
(* A Path is a Go slice: [a |-> backing array, n |-> length]; the array 0  *)
(* is the nil array of Path{}. paArrays[a] are the cells of array a, as    *)
(* many as its capacity; a cell that was never written holds "".           *)
(* paHeld lists the paths returned so far, each with the steps its holder  *)
(* read from it when it got it (seen).                                     *)
(***************************************************************************)
\* the steps added to a path
PathSteps == { "x", "y" }

\* the most paths handed out
MaxHeld == 6

\* the longest path
MaxDepth == 4

\* cap(s)
Cap(arrays, s) == IF s.a = 0 THEN 0 ELSE Len(arrays[s.a])

\* the steps a holder of the slice s reads now
Content(arrays, s) == [ i \in 1..s.n |-> arrays[s.a][i] ]

\* append(s, step): the step is written into the spare cell of the receiver's
\* array when there is one, else into a new array of twice the capacity
AddAppend(arrays, s, step) ==
    IF s.n < Cap(arrays, s)
    THEN [ arrays |-> [ arrays EXCEPT ![s.a][s.n + 1] = step ],
           path |-> [ a |-> s.a, n |-> s.n + 1 ] ]
    ELSE LET newCap == IF s.n = 0 THEN 1 ELSE 2 * s.n
         IN  [ arrays |-> Append(arrays, [ i \in 1..newCap |->
                                            IF i <= s.n THEN arrays[s.a][i]
                                            ELSE IF i = s.n + 1 THEN step ELSE "" ]),
               path |-> [ a |-> Len(arrays) + 1, n |-> s.n + 1 ] ]

\* func (s Path) Add(step fmt.Stringer) Path:
\* out := make(Path, len(s)+1); copy(out, s); out[len(s)] = step; return out
Add(arrays, s, step) ==
    [ arrays |-> Append(arrays, [ i \in 1..(s.n + 1) |->
                                    IF i <= s.n THEN arrays[s.a][i] ELSE step ]),
      path |-> [ a |-> Len(arrays) + 1, n |-> s.n + 1 ] ]

PathInit ==
    /\ paArrays = << >>
    /\ paHeld = << [ a |-> 0, n |-> 0, seen |-> << >>, from |-> 0, step |-> "" ] >>

\* path := path.Add(step) on a path handed out before: the root path, the path of
\* the value whose fields, elements or keys are being walked, or a path a
\* callback kept
PathAddCall ==
    \E i \in DOMAIN paHeld, step \in PathSteps :
        /\ Len(paHeld) < MaxHeld
        /\ paHeld[i].n < MaxDepth
        /\ LET r == Add(paArrays, paHeld[i], step)
           IN  /\ paArrays' = r.arrays
               /\ paHeld' = Append(paHeld, [ a |-> r.path.a, n |-> r.path.n,
                                             seen |-> Content(r.arrays, r.path),
                                             from |-> i, step |-> step ])
        /\ UNCHANGED notPath

PathNext == PathAddCall

(***************************************************************************)
(* pkg/testproject: redisProjectLocker.                                    *)
(*                                                                         *)
(* One locker of one project: its caller (tryLock, then the cancel         *)
(* function), the extendLock goroutine that tryLock starts, the ticker of  *)
(* that goroutine and the other clients of the redis server. The answer of *)
(* redislock to a Refresh under a cancelled context is not part of the     *)
(* repository: the call either fails with the context's error or reaches   *)
(* the server.                                                             *)
(***************************************************************************)
\* the most ticks of one ticker
MaxTicks == 2

\* the most successful tryLock calls
MaxLocks == 2

RedisCounts == [ locks |-> 0, ticks |-> 0, refresh |-> 0, late |-> 0, release |-> 0 ]

RedisInit ==
    /\ redisKey = "free"
    /\ rlLocked = FALSE
    /\ ctxDone = FALSE
    /\ tickerC = FALSE
    /\ extendPc = "none"
    /\ callerPc = "idle"
    /\ rdCount = RedisCounts

\* tryLock: Obtain succeeds; rl.redisLock = lock; go rl.extendLock(ctxWithCancel);
\* rl.locked = true; return true, cancel
RedisTryLock ==
    /\ callerPc = "idle"
    /\ extendPc \in { "none", "done" }
    /\ redisKey = "free"
    /\ rdCount.locks < MaxLocks
    /\ redisKey' = "mine"
    /\ rlLocked' = TRUE
    /\ ctxDone' = FALSE
    /\ tickerC' = FALSE
    /\ extendPc' = "select"
    /\ callerPc' = "holding"
    /\ rdCount' = [ RedisCounts EXCEPT !.locks = rdCount.locks + 1 ]
    /\ UNCHANGED notRedis

\* tryLock: Obtain answers ErrNotObtained; return false, nil
RedisTryLockBusy ==
    /\ callerPc = "idle"
    /\ extendPc \in { "none", "done" }
    /\ redisKey = "other"
    /\ callerPc' = "refused"
    /\ UNCHANGED << redisKey, rlLocked, ctxDone, tickerC, extendPc, rdCount >>
    /\ UNCHANGED notRedis

\* the caller sleeps and tries again
RedisRetry ==
    /\ callerPc = "refused"
    /\ callerPc' = "idle"
    /\ UNCHANGED << redisKey, rlLocked, ctxDone, tickerC, extendPc, rdCount >>
    /\ UNCHANGED notRedis

\* cancel(): the CancelFunc that tryLock returned
RedisCancel ==
    /\ callerPc = "holding"
    /\ ctxDone' = TRUE
    /\ callerPc' = "idle"
    /\ UNCHANGED << redisKey, rlLocked, tickerC, extendPc, rdCount >>
    /\ UNCHANGED notRedis

\* time.NewTicker(TTL / 4): TTL/4 has passed; the channel holds one tick at most
RedisTick ==
    /\ extendPc = "select"
    /\ rdCount.ticks < MaxTicks
    /\ tickerC' = TRUE
    /\ rdCount' = [ rdCount EXCEPT !.ticks = @ + 1 ]
    /\ UNCHANGED << redisKey, rlLocked, ctxDone, extendPc, callerPc >>
    /\ UNCHANGED notRedis

\* extendLock: case <-ticker.C: err := rl.redisLock.Refresh(ctx, TTL, nil);
\* if err != nil { panic(...) }. The case is ready when a tick waits in the channel;
\* with case <-ctx.Done() ready as well the select takes either.
RedisRefresh ==
    /\ extendPc = "select"
    /\ tickerC
    /\ tickerC' = FALSE
    /\ \/ /\ ~ctxDone
          /\ extendPc' = "select"
          /\ rdCount' = [ rdCount EXCEPT !.refresh = @ + 1 ]
       \/ /\ ctxDone
          /\ extendPc' = "panic"
          /\ rdCount' = [ rdCount EXCEPT !.late = @ + 1 ]
       \/ /\ ctxDone
          /\ extendPc' = "select"
          /\ rdCount' = [ rdCount EXCEPT !.refresh = @ + 1, !.late = @ + 1 ]
    /\ UNCHANGED << redisKey, rlLocked, ctxDone, callerPc >>
    /\ UNCHANGED notRedis

\* extendLock: case <-ctx.Done(): rl.unlock(); return
\* unlock: rl.locked = false; rl.redisLock.Release(context.Background())
RedisUnlock ==
    /\ extendPc = "select"
    /\ ctxDone
    /\ rlLocked' = FALSE
    /\ redisKey' = "free"
    /\ extendPc' = "done"
    /\ rdCount' = [ rdCount EXCEPT !.release = @ + 1 ]
    /\ UNCHANGED << ctxDone, tickerC, callerPc >>
    /\ UNCHANGED notRedis

\* another client of the redis server obtains the key of the project
RedisOtherObtain ==
    /\ redisKey = "free"
    /\ redisKey' = "other"
    /\ UNCHANGED << rlLocked, ctxDone, tickerC, extendPc, callerPc, rdCount >>
    /\ UNCHANGED notRedis

\* the other client releases it
RedisOtherRelease ==
    /\ redisKey = "other"
    /\ redisKey' = "free"
    /\ UNCHANGED << rlLocked, ctxDone, tickerC, extendPc, callerPc, rdCount >>
    /\ UNCHANGED notRedis

RedisNext ==
    \/ RedisTryLock
    \/ RedisTryLockBusy
    \/ RedisRetry
    \/ RedisCancel
    \/ RedisTick
    \/ RedisRefresh
    \/ RedisUnlock
    \/ RedisOtherObtain
    \/ RedisOtherRelease

Init ==
    /\ OmInit /\ LockInit /\ JsonInit /\ CopyInit
    /\ NestedInit /\ PathInit /\ RedisInit

SpecMap == Init /\ [][OmNext]_vars

SpecLock == Init /\ [][LockNext]_vars

\* Every goroutine that can take its next step in GetTestProject, tryLock or unlock
\* takes it, and every holder calls its UnlockFn; nobody has to call GetTestProject.
LockFairness ==
    \A g \in Goroutines :
        /\ WF_vars(ScanSkip(g))
        /\ WF_vars(ScanTry(g))
        /\ WF_vars(ScanNoCompatible(g))
        /\ WF_vars(ScanSleep(g))
        /\ WF_vars(TryLockFs(g))
        /\ WF_vars(TryLockMutex(g))
        /\ WF_vars(TryLockSetLocked(g))
        /\ WF_vars(UnlockClear(g))
        /\ WF_vars(UnlockFs(g))
        /\ WF_vars(UnlockMutex(g))

SpecLockFair == Init /\ [][LockNext]_vars /\ LockFairness

SpecJson == Init /\ [][JsonNext]_vars

SpecCopy == Init /\ [][CopyNext]_vars

SpecNested == Init /\ [][NestedNext]_vars

SpecPath == Init /\ [][PathNext]_vars

SpecRedis == Init /\ [][RedisNext]_vars

(***************************************************************************)
(* Properties of deepcopy.                                                 *)
(***************************************************************************)

Copied == cpRes # << >>

Res == cpRes[1]

OrigIds == 1..Len(cpHeap)

Kids(heap, n) == Range(heap[n].c) \ {0}

\* the nodes that can be reached from the nodes of S
RECURSIVE ReachFrom(_, _)
ReachFrom(heap, S) ==
    LET next == S \cup UNION { Kids(heap, n) : n \in S }
    IN  IF next = S THEN S ELSE ReachFrom(heap, next)

Acyclic(heap, root) ==
    \A n \in ReachFrom(heap, {root}) : n \notin ReachFrom(heap, Kids(heap, n))

NoUnexported(heap, root) ==
    \A n \in ReachFrom(heap, {root}) :
        heap[n].k = "struct" => \A i \in 1..Len(heap[n].x) : heap[n].x[i] = 1

\* A position of a value: the field, element or key to take at each level, the
\* one child of a pointer or an interface being child 1.
RouteLen == MaxNodes + MaxPtrs

Routes == UNION { [1..n -> 1..MaxKids] : n \in 0..RouteLen }

RECURSIVE Follow(_, _, _, _)
Follow(heap, n, r, i) ==
    IF i > Len(r) \/ n = 0 THEN n
    ELSE LET nd == heap[n]
             j == IF nd.k \in {"map", "omap"} THEN IndexOf(nd.x, r[i])
                  ELSE IF r[i] <= Len(nd.c) THEN r[i] ELSE 0
         IN  IF j = 0 THEN 0 ELSE Follow(heap, nd.c[j], r, i + 1)

\* node n holds a pointer that is not nil
IsPointer(heap, n) ==
    n # 0 /\ ((heap[n].k = "ptr" /\ heap[n].c # << >>) \/ (heap[n].k = "omap" /\ heap[n].v = 1))

\* what the pointer held at node n points to
Target(heap, n) == IF heap[n].k = "omap" THEN n ELSE heap[n].c[1]

\* reflect.DeepEqual of an acyclic value a and the value b
RECURSIVE DeepEqual(_, _, _)
DeepEqual(heap, a, b) ==
    IF a = 0 \/ b = 0 THEN a = b
    ELSE LET x == heap[a]
             y == heap[b]
         IN  /\ x.k = y.k
             /\ x.v = y.v
             /\ Len(x.c) = Len(y.c)
             /\ IF x.k = "map"
                THEN /\ Range(x.x) = Range(y.x)
                     /\ \A key \in Range(x.x) :
                            DeepEqual(heap, x.c[IndexOf(x.x, key)], y.c[IndexOf(y.x, key)])
                ELSE /\ x.x = y.x
                     /\ \A i \in 1..Len(x.c) : DeepEqual(heap, x.c[i], y.c[i])

\* The values the traversal enters below node n: nothing below an array, and no
\* field after the first unexported one.
TraversedKids(heap, n) ==
    CASE heap[n].k = "array" -> {}
      [] heap[n].k = "struct" ->
           { heap[n].c[i] : i \in { j \in 1..Len(heap[n].c) :
                                      \A m \in 1..j : heap[n].x[m] = 1 } }
      [] OTHER -> Kids(heap, n)

RECURSIVE TraversedFrom(_, _)
TraversedFrom(heap, S) ==
    LET next == S \cup UNION { TraversedKids(heap, n) : n \in S }
    IN  IF next = S THEN S ELSE TraversedFrom(heap, next)

\* The node a Path leads to from node n: 0 for a key, -1 when the path does not
\* fit the value.
RECURSIVE FollowSteps(_, _, _, _)
FollowSteps(heap, n, path, i) ==
    IF i > Len(path) THEN n
    ELSE IF n < 1 THEN 0 - 1
    ELSE LET nd == heap[n]
             st == path[i]
             next ==
               CASE st.s = "type" -> n
                 [] st.s = "ptr" /\ nd.k = "ptr" /\ nd.c # << >> -> nd.c[1]
                 [] st.s = "iface" /\ nd.k = "iface" /\ nd.c # << >> -> nd.c[1]
                 [] st.s = "field" /\ nd.k = "struct" /\ st.i \in 1..Len(nd.c) -> nd.c[st.i]
                 [] st.s = "index" /\ nd.k = "slice" /\ st.i + 1 \in 1..Len(nd.c) -> nd.c[st.i + 1]
                 [] st.s = "mapval" /\ nd.k = "map" /\ st.i \in Range(nd.x) ->
                      nd.c[IndexOf(nd.x, st.i)]
                 [] st.s = "mapkey" /\ nd.k = "map" /\ st.i \in Range(nd.x) -> 0
                 [] st.s = "omval" /\ nd.k = "omap" /\ st.i \in Range(nd.x) ->
                      nd.c[IndexOf(nd.x, st.i)]
                 [] st.s = "omkey" /\ nd.k = "omap" /\ st.i \in Range(nd.x) -> 0
                 [] OTHER -> 0 - 1
         IN  IF next = 0 THEN (IF i = Len(path) THEN 0 ELSE 0 - 1)
             ELSE FollowSteps(heap, next, path, i + 1)

Front(path) == SubSeq(path, 1, Len(path) - 1)

IsProperPrefix(p, q) == Len(p) < Len(q) /\ SubSeq(q, 1, Len(p)) = p

(***************************************************************************)
(* Properties of the nested paths.                                         *)
(***************************************************************************)

\* The value the first n steps of path lead to in the value v: a key that is
\* there, an index inside the slice; [t |-> "none"] when a step leads nowhere.
RECURSIVE Reached(_, _, _, _)
Reached(v, path, i, n) ==
    IF i > n THEN v
    ELSE LET key == path[i]
         IN  CASE key.s = "map" /\ v.t = "omap" /\ key.key \in DOMAIN v.values ->
                    Reached(v.values[key.key], path, i + 1, n)
               [] key.s = "slice" /\ v.t = "slice" /\ key.index >= 0 /\ key.index < Len(v.items) ->
                    Reached(v.items[key.index + 1], path, i + 1, n)
               [] OTHER -> [ t |-> "none" ]

\* Step i of path is a SliceStep that meets an existing slice and names an index
\* that is not in it.
PastTheEnd(o, path, i) ==
    /\ path[i].s = "slice"
    /\ Reached(OMap(o), path, 1, i - 1).t = "slice"
    /\ path[i].index >= Len(Reached(OMap(o), path, 1, i - 1).items)

(***************************************************************************)
(* Properties of the OrderedMap.                                           *)
(***************************************************************************)

\* C1: after any sequence of Set, Delete, Sort and SortKeys on a map made by New or
\* FromPairs, the key sequence has no duplicate, its set of keys is the key set of
\* the value table, and Len() is the number of stored values.
C1_KeysMatchValues ==
    /\ NoDup(Keys(om))
    /\ Range(Keys(om)) = DOMAIN om.values
    /\ OLen(om) = Cardinality(DOMAIN om.values)
    /\ \A k \in KeySet : GetFound(om, k) <=> k \in Range(Keys(om))

\* C1 witness: a Delete of a present key from a map that a Sort or a Set built,
\* leaving two keys behind
C1_Witness ==
    /\ omLast.op = "Delete"
    /\ omLast.key \in DOMAIN omLast.before.values
    /\ OLen(om) = 2

\* C5: Set on a present key leaves the key sequence as it was and replaces only that
\* key's value; Set on an absent key appends the key and leaves every other key's
\* position and value as they were.
C5_SetFrame ==
    omLast.op = "Set" =>
        LET b == omLast.before
            k == omLast.key
        IN  /\ GetValue(om, k) = omLast.value
            /\ \A x \in DOMAIN b.values : x # k => GetValue(om, x) = b.values[x]
            /\ DOMAIN om.values = (DOMAIN b.values) \cup { k }
            /\ IF GetFound(b, k)
               THEN Keys(om) = Keys(b)
               ELSE Keys(om) = Append(Keys(b), k)

\* C5 witness: Set(b,1); Set(a,1); Set(b,2) gives Keys() = [b, a]
C5_Witness ==
    /\ omLast.op = "Set"
    /\ omLast.key = "b"
    /\ omLast.value = 2
    /\ omLast.before = [ keys |-> << "b", "a" >>, values |-> [ x \in { "a", "b" } |-> 1 ] ]
    /\ Keys(om) = << "b", "a" >>

(***************************************************************************)
(* Properties of the test project locking.                                 *)
(***************************************************************************)

\* the goroutines that hold project p: tryLock returned true, UnlockFn not yet called
Holders(p) == { g \in Goroutines : gr[g].pc = "holding" /\ gr[g].idx = p }

\* C4: only one test can access a project at a time: between a successful tryLock
\* and the matching unlock no other goroutine, of the same or of another process,
\* holds the same project, under every interleaving of the steps of tryLock and unlock.
C4_OneHolderPerProject == \A p \in Projects : Cardinality(Holders(p)) <= 1

(***************************************************************************)
(* Properties of the JSON decoding.                                        *)
(***************************************************************************)

\* the keys of an object of the document, each once, in the order of their last
\* occurrences
RECURSIVE LastKeys(_)
LastKeys(pairs) ==
    IF pairs = << >> THEN << >>
    ELSE IF \E i \in DOMAIN Tail(pairs) : Tail(pairs)[i].k = Head(pairs).k
    THEN LastKeys(Tail(pairs))
    ELSE << Head(pairs).k >> \o LastKeys(Tail(pairs))

\* an object of the document has a key that occurs twice, here or below
RECURSIVE HasDuplicate(_)
HasDuplicate(v) ==
    CASE v.t = "obj" ->
            \/ \E i, j \in DOMAIN v.pairs : i < j /\ v.pairs[i].k = v.pairs[j].k
            \/ \E i \in DOMAIN v.pairs : HasDuplicate(v.pairs[i].v)
      [] v.t = "arr" -> \E i \in DOMAIN v.elems : HasDuplicate(v.elems[i])
      [] OTHER -> FALSE

\* the decoded value g is the document value v: an object is an OrderedMap whose keys
\* are the object's keys, each once, in the order of their last occurrences, and whose
\* value for a key is that of the key's last occurrence; an array is a []any (or, when
\* all its elements are strings, a []string) of its elements
RECURSIVE Decoded(_, _)
Decoded(g, v) ==
    CASE v.t = "obj" ->
            /\ g.t = "omap"
            /\ g.keys = LastKeys(v.pairs)
            /\ DOMAIN g.values = Range(g.keys)
            /\ \A k \in DOMAIN g.values : Decoded(g.values[k], v.pairs[LastIndex(v.pairs, k)].v)
      [] v.t = "arr" ->
            \/ /\ g.t = "slice"
               /\ Len(g.items) = Len(v.elems)
               /\ \A i \in DOMAIN v.elems : Decoded(g.items[i], v.elems[i])
            \/ /\ g.t = "strs"
               /\ Len(g.strs) = Len(v.elems)
               /\ \A i \in DOMAIN v.elems : v.elems[i].t = "str" /\ v.elems[i].s = g.strs[i]
      [] OTHER -> g = v

\* C8: decoding an object in which a key occurs more than once gives an OrderedMap
\* with that key once, at the position of its last occurrence, holding the value of
\* its last occurrence; at every nesting level, whatever the JSON types of the
\* occurrences.
C8_DuplicateKeysLastWins ==
    jsonOut # << >> => Decoded(OMap(jsonOut[1]), jsonDoc)

\* C8 witness: {"a":1,"b":..,"a":..}-like documents: a key repeats at the top level
\* with values of different JSON types and the decoded keys are [b, a]
C8_Witness ==
    /\ jsonOut # << >>
    /\ Len(jsonDoc.pairs) = 3
    /\ jsonDoc.pairs[1].k = "a" /\ jsonDoc.pairs[2].k = "b" /\ jsonDoc.pairs[3].k = "a"
    /\ jsonDoc.pairs[1].v.t = "obj" /\ jsonDoc.pairs[3].v.t = "num"
    /\ Keys(jsonOut[1]) = << "b", "a" >>
    /\ GetValue(jsonOut[1], "a") = [ t |-> "num", n |-> 1 ]

\* C8 witness at a nested level: a key repeats inside a nested object, first as an
\* object and last as an array
C8_WitnessNested ==
    /\ jsonOut # << >>
    /\ \E i \in DOMAIN jsonDoc.pairs :
        LET v == jsonDoc.pairs[i].v
        IN  /\ v.t = "obj"
            /\ Len(v.pairs) = 2
            /\ v.pairs[1].k = v.pairs[2].k
            /\ v.pairs[1].v.t = "obj"
            /\ v.pairs[2].v.t = "arr"

(***************************************************************************)
(* Claims about deepcopy.                                                  *)
(***************************************************************************)

\* the positions of the input that hold a pointer that is not nil
PointerRoutes == { r \in Routes : IsPointer(cpHeap, Follow(cpHeap, 1, r, 1)) }

\* C2: when two pointer positions of the input point to the same target, the same
\* two positions of the result of Copy point to one and the same target, and that
\* target is a clone that Copy allocated, never the original target.
C2_AliasingPreserved ==
    (Copied /\ Res.status = "ok") =>
        \A r1, r2 \in PointerRoutes :
            LET a == Follow(cpHeap, 1, r1, 1)
                b == Follow(cpHeap, 1, r2, 1)
                ac == Follow(Res.heap, Res.ret, r1, 1)
                bc == Follow(Res.heap, Res.ret, r2, 1)
            IN  (r1 # r2 /\ Target(cpHeap, a) = Target(cpHeap, b)) =>
                    /\ IsPointer(Res.heap, ac)
                    /\ IsPointer(Res.heap, bc)
                    /\ Target(Res.heap, ac) = Target(Res.heap, bc)
                    /\ Target(Res.heap, ac) \notin OrigIds

\* C3: Copy terminates on every finite input, reference cycles included: it never
\* recurses until the stack is exhausted.
C3_CopyTerminates == Copied => Res.status # "overflow"

\* C6: for an acyclic input without an unexported struct field, Copy returns a
\* value that is deep-equal to the input: same kinds, same scalars, same lengths
\* and order, same map keys, and nil stays nil.
C6_DeepEqual ==
    (Copied /\ Acyclic(cpHeap, 1) /\ NoUnexported(cpHeap, 1)) =>
        (Res.status = "ok" /\ DeepEqual(Res.heap, 1, Res.ret))

\* C7: nothing that can be reached from the result of Copy is an object of the
\* input: no pointer target, no slice backing array, no map, whatever kinds of
\* values the input holds.
C7_NoSharedReference ==
    (Copied /\ Res.status = "ok") => ReachFrom(Res.heap, {Res.ret}) \cap OrigIds = {}

\* C9: in CopyTranslate the callback of a value comes after the callbacks of all
\* values below it, each call names the value at its path, and the call for the
\* root is the last one.
C9_CallbackBottomUp ==
    (Copied /\ Res.cb /\ Res.status = "ok") =>
        LET log == Res.log
        IN  /\ log # << >>
            /\ log[Len(log)].o = 1
            /\ Front(log[Len(log)].path) = << >>
            /\ \A i \in 1..Len(log) :
                   FollowSteps(cpHeap, 1, Front(log[i].path), 1) = log[i].o
            /\ \A i, j \in 1..Len(log) :
                   IsProperPrefix(Front(log[i].path), Front(log[j].path)) => j < i

\* C9 witness: a CopyTranslate that called the callback for a value three levels
\* below the root and for a map key
C9_Witness ==
    /\ Copied /\ Res.cb /\ Res.status = "ok"
    /\ \E i \in 1..Len(Res.log) : Len(Res.log[i].path) >= 4
    /\ \E i \in 1..Len(Res.log) : Res.log[i].o = 0

\* C10: a Copy whose traversal enters a struct with an unexported field returns
\* no value; its panic names that struct, the first unexported field in field
\* order, and the path that leads from the root to that field.
C10_UnexportedFieldPanic ==
    Copied =>
        /\ Res.status = "ok" =>
               \A n \in TraversedFrom(cpHeap, {1}) :
                   cpHeap[n].k = "struct" => 0 \notin Range(cpHeap[n].x)
        /\ Res.status = "unexported" =>
               LET last == Res.ppath[Len(Res.ppath)]
                   s == Res.pval
               IN  /\ last.s = "field"
                   /\ s \in OrigIds
                   /\ cpHeap[s].k = "struct"
                   /\ cpHeap[s].x[last.i] = 0
                   /\ \A j \in 1..(last.i - 1) : cpHeap[s].x[j] = 1
                   /\ FollowSteps(cpHeap, 1, Front(Res.ppath), 1) = s
                   /\ Res.pmsg = PathString(Res.ppath)

\* C10 witness: the panic for the second field of a struct that is reached
\* through a pointer, its first field being exported
C10_Witness ==
    /\ Copied
    /\ Res.status = "unexported"
    /\ Len(Res.ppath) >= 2
    /\ Res.ppath[Len(Res.ppath)].i = 2
    /\ Res.pmsg = "*T[F2]"


\* C11: a copy is all-or-nothing for the caller. A call that ends in a panic
\* leaves no part of the unfinished clone within the caller's reach: the
\* VisitedPtrMap the caller passed to CopyTranslateSteps (empty before the call)
\* holds no entry of the aborted call.
C11_NoPartialClone ==
    (Copied /\ Res.mine /\ Res.status \in {"unexported", "notAssignable"})
        => DOMAIN Res.visited = {}

\* C12: the clone Copy makes of an OrderedMap has the key sequence of the
\* original in the same order, holds under every key the deep copy of the
\* original's value, and neither it nor an OrderedMap nested in it is an
\* OrderedMap of the original.
C12_CloneOfOrderedMap ==
    (Copied /\ ~Res.cb /\ cpHeap[1].k = "omap" /\ cpHeap[1].v = 1 /\ Res.status = "ok") =>
        LET h == Res.heap
            o == h[1]
            c == h[Res.ret]
        IN  /\ c.k = "omap" /\ c.v = 1
            /\ c.x = o.x
            /\ Len(c.c) = Len(o.c)
            /\ \A i \in 1..Len(o.c) :
                   /\ (o.c[i] = 0) = (c.c[i] = 0)
                   /\ o.c[i] # 0 => h[c.c[i]].k = h[o.c[i]].k
            /\ Acyclic(cpHeap, 1) => DeepEqual(h, 1, Res.ret)
            /\ { n \in ReachFrom(h, {Res.ret}) : h[n].k = "omap" } \cap OrigIds = {}

\* C13: when GetNestedPath (at any step) or SetNestedPath (at a step before the
\* last) comes to a SliceStep whose index is at or past the end of the slice that
\* is there, it returns the error path "<path so far>" not found (GetNestedPath
\* with the value nil and found = false); it does not panic and the map stays as
\* it was.
C13_IndexPastEndIsError ==
    /\ ntLast.op = "GetNestedPath" =>
          \A i \in 1..Len(ntLast.path) :
              PastTheEnd(ntLast.before, ntLast.path, i) =>
                  /\ ~ntLast.res.panic
                  /\ ntLast.res.err = ErrNotFound(SubSeq(ntLast.path, 1, i))
                  /\ ntLast.res.value = Nil
                  /\ ~ntLast.res.found
                  /\ ntMap = ntLast.before
    /\ ntLast.op = "SetNestedPath" =>
          \A i \in 1..(Len(ntLast.path) - 1) :
              PastTheEnd(ntLast.before, ntLast.path, i) =>
                  /\ ~ntLast.res.panic
                  /\ ntLast.res.err = ErrNotFound(SubSeq(ntLast.path, 1, i))
                  /\ ntMap = ntLast.before

\* The steps of path before the last are map keys that lead, in the map o, to
\* OrderedMaps or to keys that are not there.
MapStepsOnly(o, path) ==
    /\ path # << >>
    /\ \A i \in 1..Len(path) : path[i].s = "map"
    /\ \A i \in 1..(Len(path) - 1) : Reached(OMap(o), path, 1, i).t \in { "omap", "none" }

C15_DeleteFrame ==
    omLast.op = "Delete" =>
        LET before == omLast.before
            k == omLast.key
        IN  IF ~GetFound(before, k)
            THEN om = before
            ELSE /\ Keys(om) = SelectSeq(Keys(before), LAMBDA x : x # k)
                 /\ DOMAIN om.values = (DOMAIN before.values) \ { k }
                 /\ \A x \in DOMAIN om.values : GetValue(om, x) = GetValue(before, x)
                 /\ ~GetFound(om, k)
                 /\ OLen(om) = OLen(before) - 1

\* The middle key of a map of three keys was deleted.
C15_Witness ==
    /\ omLast.op = "Delete"
    /\ OLen(omLast.before) = 3
    /\ Keys(omLast.before)[2] = omLast.key
    /\ OLen(om) = 2

\* the paths of the nodes a map built by MaxSets calls can hold
VisitPaths == UNION { [ 1..n -> NestedSteps ] : n \in 1..(MaxPathLen + 1) }

\* the place of a step among the children of the value v: the place of the key
\* in the key sequence, the index in the slice
ChildRank(v, step) == IF v.t = "omap" THEN IndexOf(v.keys, step.key) ELSE step.index + 1

\* the length of the longest common prefix of the paths p and q
CommonLen(p, q) ==
    CHOOSE n \in 0..Len(p) :
        /\ n <= Len(q)
        /\ SubSeq(p, 1, n) = SubSeq(q, 1, n)
        /\ (n < Len(p) /\ n < Len(q)) => p[n + 1] # q[n + 1]

\* C16: VisitAllRecursive calls the callback exactly once for every node of the
\* tree but the root; a node comes before its descendants, the children of a map
\* in key-sequence order and the elements of a slice in index order; each call
\* gets the node's path, the node's value and the map or slice that holds it.
C16_VisitOrder ==
    ntLast.op = "VisitAllRecursive" =>
        LET tree == OMap(ntLast.before)
            log == ntLast.res
            At(p, n) == Reached(tree, p, 1, n)
        IN  /\ \A i \in 1..Len(log) : log[i].path \in VisitPaths
            /\ \A p \in VisitPaths :
                   Cardinality({ i \in 1..Len(log) : log[i].path = p })
                       = IF At(p, Len(p)).t # "none" THEN 1 ELSE 0
            /\ \A i \in 1..Len(log) :
                   /\ log[i].value = At(log[i].path, Len(log[i].path))
                   /\ log[i].parent = At(log[i].path, Len(log[i].path) - 1)
            /\ \A i, j \in 1..Len(log) :
                   LET p == log[i].path
                       q == log[j].path
                       n == CommonLen(p, q)
                   IN  /\ IsProperPrefix(p, q) => i < j
                       /\ (n < Len(p) /\ n < Len(q)
                             /\ ChildRank(At(p, n), p[n + 1]) < ChildRank(At(p, n), q[n + 1]))
                            => i < j

\* A tree with two keys at the root, one of them holding a slice with a map in
\* it, was visited.
C16_Witness ==
    /\ ntLast.op = "VisitAllRecursive"
    /\ Len(ntLast.before.keys) = 2
    /\ \E i \in 1..Len(ntLast.res) :
           /\ ntLast.res[i].parent.t = "slice"
           /\ ntLast.res[i].value.t = "omap"

\* goroutine g is inside a call of GetTestProject that has not returned
InGetTestProject(g) == gr[g].pc \in { "scan", "tryFs", "tryMutex", "setLocked" }

\* C17: a call of GetTestProject that finds its projects locked waits, and it
\* returns a project once the holders have called their UnlockFn: if from some
\* time on the other goroutines make no new call, a goroutine that is in
\* GetTestProject with a compatible project in the pool gets a project.
C17_WaiterGetsProject ==
    \A g \in Goroutines :
        (<>[](\A h \in Goroutines \ { g } : gr[h].pc = "idle"))
            => [](InGetTestProject(g) /\ (\E p \in Projects : IsCompatible(gr[g].cfg, Pool[p]))
                    => <>(gr[g].pc = "holding"))

\* p.locker of goroutine g's process finds project q locked: the file lock is held
\* by another process, or the mutex of the locker is held
LockedFor(g, q) == osLock[q] \notin { 0, ProcOf[g] } \/ mutex[<< ProcOf[g], q >>]

NoCompatible(g) == \A p \in Projects : ~IsCompatible(gr[g].cfg, Pool[p])

\* C19: GetTestProject returns the error "no compatible test project found"
\* exactly when no project of the pool is compatible with the options. A call
\* returns the error only if no project is compatible; a call for which no
\* project is compatible takes no lock, never sleeps and ends its first round
\* with the error; a call that has a compatible project sleeps and scans again
\* when its round ends without a project.
C19_NoCompatibleProjectError ==
    [][\A g \in Goroutines :
          (gr'[g] # gr[g] /\ InGetTestProject(g)) =>
              /\ gr'[g].result = "no compatible test project found" => NoCompatible(g)
              /\ NoCompatible(g) =>
                    /\ UNCHANGED << osLock, flockL, mutex, locked >>
                    /\ IF gr[g].idx \in Projects
                       THEN gr'[g].idx = gr[g].idx + 1 /\ gr'[g].pc = "scan"
                       ELSE gr'[g].result = "no compatible test project found"
              /\ (~NoCompatible(g) /\ gr[g].pc = "scan" /\ gr[g].idx \notin Projects) =>
                    InGetTestProject(g)' /\ gr'[g].idx = 1]_vars

\* A call with WithQueueV1 has returned the error while another goroutine holds a
\* project.
C19_Witness ==
    \E g, h \in Goroutines :
        /\ gr[g].result = "no compatible test project found"
        /\ gr[h].pc = "holding"

\* The keys of a value at every level: of an OrderedMap the keys in sequence
\* order, each with the keys of its value; of a slice the keys of its elements;
\* a scalar has none.
RECURSIVE KeyShape(_)
KeyShape(v) ==
    CASE v.t = "omap" ->
            [ t |-> "object",
              kids |-> [ i \in DOMAIN v.keys |->
                           [ k |-> v.keys[i], s |-> KeyShape(v.values[v.keys[i]]) ] ] ]
      [] v.t = "slice" -> [ t |-> "array", kids |-> [ i \in DOMAIN v.items |-> KeyShape(v.items[i]) ] ]
      [] v.t = "strs" -> [ t |-> "array", kids |-> [ i \in DOMAIN v.strs |-> [ t |-> "leaf" ] ] ]
      [] OTHER -> [ t |-> "leaf" ]

\* the same for a JSON document: the keys of an object in the order they are
\* written
RECURSIVE DocShape(_)
DocShape(d) ==
    CASE d.t = "obj" ->
            [ t |-> "object",
              kids |-> [ i \in DOMAIN d.pairs |-> [ k |-> d.pairs[i].k, s |-> DocShape(d.pairs[i].v) ] ] ]
      [] d.t = "arr" -> [ t |-> "array", kids |-> [ i \in DOMAIN d.elems |-> DocShape(d.elems[i]) ] ]
      [] OTHER -> [ t |-> "leaf" ]

\* C20: MarshalJSON writes the keys of an OrderedMap built by New and Set in
\* key-sequence order at every level, and unmarshalling what it wrote into a new
\* OrderedMap gives the same key sequence at every level; a key that holds an
\* empty map or an empty array is still there and holds an empty map or an empty
\* array.
C20_JsonRoundTripOrder ==
    ntLast.op = "MarshalUnmarshal" =>
        /\ DocShape(ntLast.res.doc) = KeyShape(OMap(ntLast.before))
        /\ KeyShape(OMap(ntLast.res.out)) = KeyShape(OMap(ntLast.before))

\* A map whose keys are b, a in that order, with an empty array under one key
\* and a nested map under the other, went through the round trip.
C20_Witness ==
    /\ ntLast.op = "MarshalUnmarshal"
    /\ ntLast.before.keys = << "b", "a" >>
    /\ \E k \in { "a", "b" } : ntLast.before.values[k] = Slice(<< >>)
    /\ \E k \in { "a", "b" } :
           ntLast.before.values[k].t = "omap" /\ ntLast.before.values[k].keys # << >>
    /\ ntLast.res.out.keys = << "b", "a" >>

\* C21: GetNestedPathOrNil returns nil and does not panic whenever GetNestedPath on
\* the same map and path reports an error (a missing key, an index past the end,
\* a MapStep on a value that is not an OrderedMap, a SliceStep on a value that is
\* not a []any).
C21_OrNilOnError ==
    ntLast.op = "GetNestedPathOrNil" =>
        LET r == GetNestedPath(ntLast.before, ntLast.path)
        IN  (~r.panic /\ r.err # "") => ntLast.res = OrNilResult(Nil, FALSE)

\* the first step of path that is a SliceStep with a negative index, 0 when
\* there is none
FirstNegative(path) ==
    IF \E i \in DOMAIN path : path[i].s = "slice" /\ path[i].index < 0
    THEN CHOOSE i \in DOMAIN path :
            /\ path[i].s = "slice" /\ path[i].index < 0
            /\ \A j \in 1..(i - 1) : ~(path[j].s = "slice" /\ path[j].index < 0)
    ELSE 0

\* C22: SetNestedPath given a path with a negative SliceStep, last or not, does
\* not panic and returns the error
\* `path "<path up to that step>": array key can't be negative`.
C22_NegativeIndexError ==
    (ntLast.op = "SetNestedPath" /\ FirstNegative(ntLast.path) # 0) =>
        /\ ~ntLast.res.panic
        /\ ntLast.res.err =
              "path \"" \o NestedPathString(SubSeq(ntLast.path, 1, FirstNegative(ntLast.path)))
                  \o "\": array key can't be negative"

\* the pair Sort hands to the less function for key k of the map o
PairOf(o, k) == [ Key |-> k, Value |-> o.values[k] ]

\* C23: SortKeys and Sort change only the order of the key sequence: the value
\* table is the same before and after, the new key sequence is a permutation of
\* the old one, and after Sort(less) no key a stands before a key b with
\* less(b, a) true and less(a, b) false.
C23_SortFrame ==
    omLast.op \in { "SortKeys", "Sort" } =>
        /\ om.values = omLast.before.values
        /\ Len(Keys(om)) = Len(Keys(omLast.before))
        /\ \A k \in KeySet :
              Cardinality({ i \in DOMAIN Keys(om) : Keys(om)[i] = k }) =
              Cardinality({ i \in DOMAIN Keys(omLast.before) : Keys(omLast.before)[i] = k })
        /\ omLast.op = "Sort" =>
              \A i, j \in DOMAIN Keys(om) :
                  i < j =>
                      ~(/\ LessFunc(omLast.key, PairOf(om, Keys(om)[j]), PairOf(om, Keys(om)[i]))
                        /\ ~LessFunc(omLast.key, PairOf(om, Keys(om)[i]), PairOf(om, Keys(om)[j])))

\* Three keys in ascending order were sorted by descending key and now stand
\* in the reverse order, their values untouched.
C23_Witness ==
    /\ omLast.op = "Sort"
    /\ omLast.key = "keyDesc"
    /\ Keys(omLast.before) = << "a", "b", "c" >>
    /\ Keys(om) = << "c", "b", "a" >>
    /\ om.values = omLast.before.values

\* the non-nil *OrderedMap values of the input that the copy has entered
EnteredOrderedMaps ==
    { o \in OrigIds : cpHeap[o].k = "omap" /\ cpHeap[o].v = 1 /\ (0 - o) \in DOMAIN Res.visited }

\* C24: for a value whose type has the HandleDeepCopy method (a *OrderedMap) the
\* copy registers the pointer, stores the instance the method returns in the
\* clone position, lets the CloneFn fill it and calls the callback for the node
\* last: the registered clone is a new OrderedMap with the keys of the original
\* in order, a reference back to an OrderedMap that is being filled is the
\* instance stored for it, the callback of the node comes once, with that
\* instance, after the callbacks of its keys and values, and no pointer or
\* struct step of the generic traversal is taken below the node.
C24_CustomCopyOrder ==
    (Copied /\ Res.status = "ok") =>
        \A o \in EnteredOrderedMaps :
            LET slot == Res.visited[0 - o].slot
                log == Res.log
                mine == { i \in 1..Len(log) : log[i].o = o }
            IN  /\ slot \notin OrigIds
                /\ Res.heap[slot].k = "omap" /\ Res.heap[slot].v = 1
                /\ Res.heap[slot].x = cpHeap[o].x
                /\ \A i \in 1..Len(cpHeap[o].c) :
                       LET child == cpHeap[o].c[i]
                       IN  /\ child = 0 => Res.heap[slot].c[i] = 0
                           /\ child \in EnteredOrderedMaps =>
                                  Res.heap[slot].c[i] = Res.visited[0 - child].slot
                /\ Res.cb =>
                       /\ Cardinality(mine) = 1
                       /\ \A i \in mine :
                              /\ log[i].c = slot
                              /\ log[i].path[Len(log[i].path)] = TypeStep("ptr")
                              /\ \A j \in 1..Len(log) :
                                     IsProperPrefix(Front(log[i].path), Front(log[j].path)) =>
                                         /\ j < i
                                         /\ log[j].path[Len(log[i].path)] =
                                                TypeStep("*orderedmap.OrderedMap")

\* An OrderedMap stored under its own second key was copied with a callback: the
\* clone holds itself under that key and the callback of the map is the last.
C24_Witness ==
    /\ Copied /\ Res.cb /\ Res.status = "ok"
    /\ cpHeap[1].k = "omap" /\ cpHeap[1].v = 1
    /\ Len(cpHeap[1].c) = 2 /\ cpHeap[1].c[2] = 1 /\ cpHeap[1].c[1] > 1
    /\ Res.heap[Res.ret].c[2] = Res.ret
    /\ Res.log[Len(Res.log)].o = 1
    /\ Len(Res.log) >= 4

\* The positions directly below the value n that stands at the path front: the
\* path of each position and the value there (0 for a map key). Nothing is below
\* an array, a scalar, a nil pointer, or a nil any held by an OrderedMap.
KidPositions(n, front) ==
    LET nd == cpHeap[n]
        hook == PathAdd(front, TypeStep(TypeString(nd)))
    IN  CASE nd.k = "ptr" ->
               { [path |-> PathAdd(front, PointerStep), kid |-> nd.c[i]] : i \in 1..Len(nd.c) }
          [] nd.k = "iface" ->
               { [path |-> PathAdd(front, InterfaceStep(TypeString(cpHeap[nd.c[i]]))),
                  kid |-> nd.c[i]] : i \in 1..Len(nd.c) }
          [] nd.k = "struct" ->
               { [path |-> PathAdd(front, StructFieldStep(TypeString(nd), i)), kid |-> nd.c[i]] :
                   i \in 1..Len(nd.c) }
          [] nd.k = "slice" ->
               { [path |-> PathAdd(front, SliceIndexStep(i - 1)), kid |-> nd.c[i]] :
                   i \in 1..Len(nd.c) }
          [] nd.k = "map" ->
               { [path |-> PathAdd(front, MapKeyStep(nd.x[i])), kid |-> nd.c[i]] :
                   i \in 1..Len(nd.c) }
               \cup { [path |-> PathAdd(front, MapKeyValueStep(nd.x[i])), kid |-> 0] :
                        i \in 1..Len(nd.c) }
          [] nd.k = "omap" ->
               { [path |-> PathAdd(hook, MapStep(nd.x[i])), kid |-> nd.c[i]] :
                   i \in { j \in 1..Len(nd.c) : nd.c[j] # 0 } }
               \cup { [path |-> PathAdd(hook, OrderedMapKeyStep(nd.x[i])), kid |-> 0] :
                        i \in 1..Len(nd.c) }
          [] OTHER -> { }

\* the calls of the callback for the position q
CallsAt(q) == { j \in 1..Len(Res.log) : Front(Res.log[j].path) = q.path /\ Res.log[j].o = q.kid }

\* the calls of the callback for a non-nil pointer with the address of pointer p
CallsForPointer(p) ==
    { j \in 1..Len(Res.log) :
        /\ IsPointer(cpHeap, Res.log[j].o)
        /\ PointerOf(cpHeap, Res.log[j].o) = PointerOf(cpHeap, p) }

\* the calls of the callback for the positions below the path front
CallsBelow(front) == { j \in 1..Len(Res.log) : IsProperPrefix(front, Front(Res.log[j].path)) }

\* C25 as stated: a CopyTranslate that returns has called the callback exactly
\* once for the root and for every position below a reported value, and a
\* pointer position whose target was already cloned through another reference
\* has its one call too, only the nodes of its target are not reported again.
C25_CallbackOncePerPosition ==
    (Copied /\ Res.cb /\ Res.status = "ok") =>
        /\ Cardinality(CallsAt([path |-> << >>, kid |-> 1])) = 1
        /\ \A e \in 1..Len(Res.log) :
               LET n == Res.log[e].o
                   front == Front(Res.log[e].path)
               IN  n # 0 =>
                     \/ \A q \in KidPositions(n, front) : Cardinality(CallsAt(q)) = 1
                     \/ /\ IsPointer(cpHeap, n)
                        /\ CallsBelow(front) = { }
                        /\ CallsForPointer(n) \ { e } # { }

\* C25, amended: a CopyTranslate that returns has called the callback exactly
\* once for every value it entered: the root and, below a value that got its
\* call, every position except a non-nil pointer whose address is already in the
\* VisitedPtrMap. Such a position gets no call: every non-nil pointer is reported
\* once, at the position found first, and no call is made for anything else.
C25_CallbackOncePerEntered ==
    (Copied /\ Res.cb /\ Res.status = "ok") =>
        /\ Cardinality(CallsAt([path |-> << >>, kid |-> 1])) = 1
        /\ \A e \in 1..Len(Res.log) :
               LET n == Res.log[e].o
                   front == Front(Res.log[e].path)
               IN  /\ n # 0 =>
                       \A q \in KidPositions(n, front) :
                           IF IsPointer(cpHeap, q.kid)
                           THEN /\ Cardinality(CallsAt(q)) <= 1
                                /\ Cardinality(CallsForPointer(q.kid)) = 1
                           ELSE Cardinality(CallsAt(q)) = 1
                   /\ \/ front = << >> /\ n = 1
                      \/ \E d \in 1..Len(Res.log) :
                            /\ Res.log[d].o # 0
                            /\ \E q \in KidPositions(Res.log[d].o, Front(Res.log[d].path)) :
                                   e \in CallsAt(q)

\* A slice of two pointers to one variable was copied with a callback: the first
\* element and the variable got their calls, the second element got none.
C25_Witness ==
    /\ Copied /\ Res.cb /\ Res.status = "ok"
    /\ cpHeap[1].k = "slice" /\ Len(cpHeap[1].c) = 2
    /\ IsPointer(cpHeap, cpHeap[1].c[1]) /\ IsPointer(cpHeap, cpHeap[1].c[2])
    /\ cpHeap[1].c[1] # cpHeap[1].c[2]
    /\ PointerOf(cpHeap, cpHeap[1].c[1]) = PointerOf(cpHeap, cpHeap[1].c[2])
    /\ Cardinality(CallsAt([path |-> << SliceIndexStep(0) >>, kid |-> cpHeap[1].c[1]])) = 1
    /\ CallsAt([path |-> << SliceIndexStep(1) >>, kid |-> cpHeap[1].c[2]]) = { }
    /\ Len(Res.log) = 3

\* C26: Path.Add returns the receiver's steps with the new step appended and
\* modifies neither the receiver nor a path returned earlier: every path handed
\* out so far still reads as it did when it was handed out, whatever was added to
\* it or to its siblings since.
C26_AddKeepsPaths ==
    \A i \in DOMAIN paHeld :
        /\ Content(paArrays, paHeld[i]) = paHeld[i].seen
        /\ paHeld[i].from # 0 => paHeld[i].seen = Append(paHeld[paHeld[i].from].seen, paHeld[i].step)

\* Two different steps were added to one path of three steps, one after the
\* other, and both results are held together with that path.
C26_Witness ==
    \E p, i, j \in DOMAIN paHeld :
        /\ paHeld[p].n = 3
        /\ i < j
        /\ paHeld[i].from = p /\ paHeld[j].from = p
        /\ paHeld[i].step # paHeld[j].step
        /\ Content(paArrays, paHeld[i]) # Content(paArrays, paHeld[j])

\* the second CopyTranslateSteps call has returned a value
CopiedAgain == Len(cpRes) = 2 /\ cpRes[2].call.status = "ok"

Res2 == cpRes[2].call

\* C27: when two CopyTranslateSteps calls are given the same VisitedPtrMap, a
\* pointer that stands somewhere in both inputs points, in both results, to one
\* and the same clone object; when the second call copies the same input with a
\* fresh map, no object allocated by either call is reached from both results.
C27_SharedVisitedSharesClones ==
    CopiedAgain =>
        /\ cpRes[2].shared =>
               \A r1, r2 \in Routes :
                   LET a == Follow(cpHeap, 1, r1, 1)
                       b == Follow(cpHeap, cpRes[2].root, r2, 1)
                       ac == Follow(Res.heap, Res.ret, r1, 1)
                       bc == Follow(Res2.heap, Res2.ret, r2, 1)
                   IN  (/\ IsPointer(cpHeap, a) /\ IsPointer(cpHeap, b)
                        /\ Target(cpHeap, a) = Target(cpHeap, b)) =>
                           /\ IsPointer(Res2.heap, ac)
                           /\ IsPointer(Res2.heap, bc)
                           /\ Target(Res2.heap, ac) = Target(Res2.heap, bc)
        /\ (~cpRes[2].shared /\ cpRes[2].root = 1) =>
               (ReachFrom(Res2.heap, {Res.ret}) \cap ReachFrom(Res2.heap, {Res2.ret}))
                   \subseteq OrigIds

\* C28: cancellation stops the renewal of the redis lock: once the cancel function
\* of a successful tryLock was called, extendLock calls Refresh no more, does not
\* panic and releases the lock once, whichever of a waiting tick and the
\* cancellation its select takes; until then the lock is held, isLocked() is true
\* and every tick taken has refreshed the lock.
C28_CancelStopsRenewal ==
    /\ rdCount.late = 0
    /\ extendPc # "panic"
    /\ rdCount.release <= 1
    /\ extendPc = "done" => rdCount.release = 1 /\ ~rlLocked
    /\ callerPc = "holding" =>
           /\ rlLocked /\ redisKey = "mine" /\ extendPc = "select"
           /\ rdCount.refresh <= rdCount.ticks
           /\ (rdCount.ticks > 0 /\ ~tickerC) => rdCount.refresh > 0

\* C29: after UnmarshalJSON the key sequence and the value table hold the same keys,
\* each key once (Get finds exactly the keys of Keys(), Len() counts the values),
\* also when the receiver held keys before the call.
C29_UnmarshalKeepsKeysAndValues ==
    jsonInto # << >> =>
        LET o == jsonInto[1].out
        IN  /\ NoDup(Keys(o))
            /\ \A k \in JsonKeys \cup { "c" } : GetFound(o, k) <=> k \in Range(Keys(o))
            /\ OLen(o) = Cardinality(DOMAIN o.values)

\* C30: a SetNestedPath that returns an error leaves the map and everything below
\* it as it was before the call.
C30_ErrorLeavesTreeUnchanged ==
    (ntLast.op = "SetNestedPath" /\ ntLast.res.err # "") => ntMap = ntLast.before

=============================================================================
